---- MODULE Spec2Model ----
(***************************************************************************)
(* A model of the way-too-much Wayland compositor: the per-client task of  *)
(* src/src/main.rs (receive loop, frame assembler, handle_message) and the *)
(* per-object state it keeps in the client's object registry.              *)
(*                                                                         *)
(* Representation notes.                                                   *)
(*  - A byte is a number in 0..255; byte strings are sequences of bytes.   *)
(*  - A 32-bit word is held as its two's complement value in               *)
(*    -2^31 .. 2^31-1, for u32 and i32 alike (a u32 above 2^31-1 is the    *)
(*    negative number with the same bits): the integers of TLC are         *)
(*    32 bits wide.                                                        *)
(*  - Option<u32> is a sequence: <<>> is None and <<v>> is Some(v).        *)
(*  - A tuple (a, b, ...) of the program is a sequence <<a, b, ...>>.      *)
(***************************************************************************)
EXTENDS Integers, Sequences, FiniteSets, TLC

VARIABLES
    clients,    \* client name -> state of that connection's task and socket
    globals,    \* CompositorGlobalState.globals, the process-wide table
    steps,      \* number of socket reads handled so far (bounds the runs)
    wire        \* what the peer of "c1" writes, and how much of it was read

vars == <<clients, globals, steps, wire>>

----------------------------------------------------------------------------
(* Bounds of the model. *)

\* Socket reads handled in one run.
MaxSteps == 5

\* Socket reads handled in one run of the surface requests.
MaxSurfaceSteps == 4

\* Frames a client writes after its handshake, in the runs that split the
\* byte stream.
MaxTailFrames == 2

\* Reads the two client tasks handle in a task-level run, both together.
MaxTaskReads == 2

\* Reads of a client task that find nothing to read, in a task-level run.
MaxPolls == 1

\* Longest interface string the bind codec is run on.
MaxStringLen == 4

----------------------------------------------------------------------------
(* Wire codec: little-endian integers, strings, frames. *)

None == <<>>
Some(v) == <<v>>

\* u16::to_le_bytes
Le16(n) == <<n % 256, (n \div 256) % 256>>

\* u32::to_le_bytes / i32::to_le_bytes
Le32(n) ==
    <<n % 256, (n \div 256) % 256, (n \div 65536) % 256, (n \div 16777216) % 256>>

\* u16::from_le_bytes([lo, hi])
U16FromLe(lo, hi) == lo + 256 * hi

\* u32::from_le_bytes / i32::from_le_bytes on bytes[from+1 .. from+4] (0-based
\* Rust range from..from+4)
WordAt(bytes, from) ==
    LET b4 == bytes[from + 4]
    IN  bytes[from + 1] + 256 * bytes[from + 2] + 65536 * bytes[from + 3]
        + 16777216 * (IF b4 >= 128 THEN b4 - 256 ELSE b4)

\* Whether the Rust slice bytes[from..to] is in range (it panics otherwise).
SliceOk(bytes, from, to) == from >= 0 /\ from <= to /\ to <= Len(bytes)

\* bytes[from..to] (0-based, half-open) as a sequence
Slice(bytes, from, to) == SubSeq(bytes, from + 1, to)

RECURSIVE Zeros(_)
Zeros(n) == IF n <= 0 THEN <<>> ELSE <<0>> \o Zeros(n - 1)

\* A get_string_bytes whose length word does not count the NUL.
get_string_bytes_length_without_nul(s) ==
    LET unpadded == Le32(Len(s)) \o s \o <<0>>
    IN  unpadded \o Zeros((4 - (Len(unpadded) % 4)) % 4)

\* get_string_bytes: length+1 word, the bytes, a NUL, zero padding to 4 bytes
get_string_bytes(s) ==
    LET unpadded == Le32(Len(s) + 1) \o s \o <<0>>
    IN  unpadded \o Zeros((4 - (Len(unpadded) % 4)) % 4)

\* The 8-byte header and argument area send_message writes (and a client
\* writes for a request): object id, opcode, 8 + args.len() as u16.
WireFrame(object_id, op_code, args) ==
    Le32(object_id) \o Le16(op_code) \o Le16((8 + Len(args)) % 65536) \o args

RECURSIVE Flatten(_)
Flatten(ss) == IF ss = <<>> THEN <<>> ELSE Head(ss) \o Flatten(Tail(ss))

\* Argument area made of 32-bit words
Words(ws) == Flatten([i \in 1..Len(ws) |-> Le32(ws[i])])

----------------------------------------------------------------------------
(* Interface names (WaylandObject::as_str), as ASCII byte strings. *)

Str_wl_shm == <<119, 108, 95, 115, 104, 109>>
Str_wl_compositor == <<119, 108, 95, 99, 111, 109, 112, 111, 115, 105, 116, 111, 114>>
Str_xdg_wm_base == <<120, 100, 103, 95, 119, 109, 95, 98, 97, 115, 101>>
Str_bogus == <<98, 111, 103, 117, 115>>

as_str(kind) ==
    CASE kind = "Shm" -> Str_wl_shm
      [] kind = "WlCompositor" -> Str_wl_compositor
      [] kind = "XdgWmBase" -> Str_xdg_wm_base
      [] OTHER -> Str_bogus

\* CompositorGlobalState::default
DefaultGlobals == <<
    [name |-> 1, interface |-> "Shm", version |-> 1],
    [name |-> 2, interface |-> "WlCompositor", version |-> 6],
    [name |-> 3, interface |-> "XdgWmBase", version |-> 7] >>

WlShmFormat_Argb8888 == 0
WlShmFormat_Rgb888 == 875710290

----------------------------------------------------------------------------
(* Objects of the registry (enum WaylandObject) and the client state. *)

Display == [kind |-> "Display"]
Registry == [kind |-> "Registry"]
Callback == [kind |-> "Callback"]
Shm == [kind |-> "Shm"]
WlCompositor == [kind |-> "WlCompositor"]
WlRegion == [kind |-> "WlRegion"]
XdgWmBase == [kind |-> "XdgWmBase"]

\* WaylandObject::ShmPool(Arc<Mutex<MmapMut>>, fd): the mapping is named by
\* its key in the client's table of live mappings.
ShmPool(mmap, fd) == [kind |-> "ShmPool", mmap |-> mmap, fd |-> fd]

\* struct Buffer
Buffer(offset, width, height, stride, format, shm_pool) ==
    [kind |-> "Buffer", offset |-> offset, width |-> width, height |-> height,
     stride |-> stride, format |-> format, shm_pool |-> shm_pool]

\* Surface::default() (#[derive(Default)]): every Option is None, every Vec
\* empty, every integer 0, the transform WlOutputTransform::Normal = 0.
DefaultSurface ==
    [kind |-> "WlSurface",
     pending_buffer |-> None, current_buffer |-> None,
     pending_surface_damage |-> <<>>, current_surface_damage |-> <<>>,
     pending_buffer_damage |-> <<>>, current_buffer_damage |-> <<>>,
     pending_opaque_region |-> None, current_opaque_region |-> None,
     pending_input_region |-> None, current_input_region |-> None,
     pending_transform |-> 0, current_transform |-> 0,
     pending_scale |-> 0, current_scale |-> 0,
     pending_offset |-> <<0, 0>>, current_offset |-> <<0, 0>>,
     frame_callbacks |-> <<>>]

\* HashMap::insert (an existing binding of the key is replaced)
insert(reg, id, object) ==
    [k \in (DOMAIN reg) \cup {id} |-> IF k = id THEN object ELSE reg[k]]

\* HashMap::remove
remove(reg, id) == [k \in (DOMAIN reg) \ {id} |-> reg[k]]

\* CompositorClientState::new and the task's locals (data, pending_fds) at
\* the top of the client task, with the socket as the task sees it:
\*   sent         event frames written to the socket while the latest read
\*                was handled, in write order
\*   dispatched   (object_id, op_code, args) of the handle_message calls made
\*                while the latest read was handled; n_dispatched counts all
\*   repeated     the latest read brought the same messages as the one before
\*   peer_open    whether a write to the socket succeeds
\*   wr_shutdown  stream.shutdown() was called
\*   mmaps        the live MmapMut values, by key: [len, fd]
NewClient ==
    [status |-> "running", exit |-> "none",
     object_registry |-> (1 :> Display),
     data |-> <<>>, pending_fds |-> <<>>,
     mmaps |-> <<>>,
     sent |-> <<>>, dispatched |-> <<>>, n_dispatched |-> 0, repeated |-> FALSE,
     peer_open |-> TRUE, wr_shutdown |-> FALSE]

\* Result of a handler: anyhow::Result<()> or a panic of the task.
Ok(c) == [c |-> c, res |-> "ok"]
Err(c) == [c |-> c, res |-> "err"]
Panic(c) == [c |-> c, res |-> "panic"]

----------------------------------------------------------------------------
(* Events. *)

\* A send_message whose event overtakes the events written before it.
send_message_overtakes(c, object_id, op_code, args) ==
    IF ~c.peer_open
    THEN Err(c)
    ELSE Ok([c EXCEPT !.sent = <<WireFrame(object_id, op_code, args)>> \o @])

\* A send_message whose length field counts the argument area only.
send_message_length_of_args(c, object_id, op_code, args) ==
    IF ~c.peer_open
    THEN Err(c)
    ELSE Ok([c EXCEPT !.sent = Append(@, Le32(object_id) \o Le16(op_code)
                                           \o Le16(Len(args) % 65536) \o args)])

\* CompositorClientState::send_message: fails when the socket cannot be
\* written, else writes header and arguments.
send_message(c, object_id, op_code, args) ==
    IF ~c.peer_open
    THEN Err(c)
    ELSE Ok([c EXCEPT !.sent = Append(@, WireFrame(object_id, op_code, args))])

send_callback_done(c, callback_id, callback_data) ==
    send_message(c, callback_id, 0, Le32(callback_data))

send_global(c, registry_id, name, interface, version) ==
    send_message(c, registry_id, 0,
                 Le32(name) \o get_string_bytes(interface) \o Le32(version))

send_format(c, shm_id, format) == send_message(c, shm_id, 0, Le32(format))

\* The `?` after a call: go on with the new state when the call returned Ok.
AndThen(r, F(_)) == IF r.res = "ok" THEN F(r.c) ELSE r

----------------------------------------------------------------------------
(* wl_display *)

\* A sync that completes its callback twice.
handle_wl_display_sync_done_twice(c, arg_bytes) ==
    IF ~SliceOk(arg_bytes, 0, 4) THEN Panic(c)
    ELSE LET new_id == WordAt(arg_bytes, 0)
             c1 == [c EXCEPT !.object_registry = insert(@, new_id, Callback)]
         IN  AndThen(send_callback_done(c1, new_id, 0),
                     LAMBDA c2 : send_callback_done(c2, new_id, 0))

\* wl_display.sync(callback: new_id)
handle_wl_display_sync(c, arg_bytes) ==
    IF ~SliceOk(arg_bytes, 0, 4) THEN Panic(c)
    ELSE LET new_id == WordAt(arg_bytes, 0)
             c1 == [c EXCEPT !.object_registry = insert(@, new_id, Callback)]
         IN  send_callback_done(c1, new_id, 0)

\* A loop that announces the globals from the last one to the first.
RECURSIVE send_globals_last_first(_, _, _)
send_globals_last_first(c, new_id, gs) ==
    IF gs = <<>> THEN Ok(c)
    ELSE AndThen(send_global(c, new_id, gs[Len(gs)].name,
                             as_str(gs[Len(gs)].interface), gs[Len(gs)].version),
                 LAMBDA c1 : send_globals_last_first(c1, new_id,
                                                     SubSeq(gs, 1, Len(gs) - 1)))

\* the `for ... in &global_state.globals { send_global(..).await? }` loop
RECURSIVE send_globals(_, _, _)
send_globals(c, new_id, gs) ==
    IF gs = <<>> THEN Ok(c)
    ELSE AndThen(send_global(c, new_id, Head(gs).name,
                             as_str(Head(gs).interface), Head(gs).version),
                 LAMBDA c1 : send_globals(c1, new_id, Tail(gs)))

\* wl_display.get_registry(registry: new_id)
handle_wl_display_get_registry(c, arg_bytes, global_state) ==
    IF ~SliceOk(arg_bytes, 0, 4) THEN Panic(c)
    ELSE LET new_id == WordAt(arg_bytes, 0)
             c1 == [c EXCEPT !.object_registry = insert(@, new_id, Registry)]
         IN  send_globals(c1, new_id, global_state)

handle_wl_display_message(c, op_code, arg_bytes, global_state) ==
    CASE op_code = 0 -> handle_wl_display_sync(c, arg_bytes)
      [] op_code = 1 -> handle_wl_display_get_registry(c, arg_bytes, global_state)
      [] OTHER -> Ok(c)

----------------------------------------------------------------------------
(* wl_registry *)

\* String::from_utf8(..).unwrap(): the model's strings are ASCII, and a byte
\* above 127 stands for an invalid encoding.
Utf8Ok(bytes) == \A i \in 1..Len(bytes) : bytes[i] < 128

\* globals.iter().find(|(n, _, _)| *n == name): index of the first match, 0
\* when there is none
FindGlobal(gs, name) ==
    LET hits == {i \in 1..Len(gs) : gs[i].name = name}
    IN  IF hits = {} THEN 0 ELSE CHOOSE i \in hits : \A j \in hits : i <= j

\* (iface_len + 3) & !3
padded_len(iface_len) == ((iface_len + 3) \div 4) * 4

\* The argument decoding of wl_registry.bind: the fields it reads, or the
\* panic of an out-of-range slice or of the unwrap.
DecodeBind(arg_bytes) ==
    IF ~SliceOk(arg_bytes, 0, 4) \/ ~SliceOk(arg_bytes, 4, 8) THEN [ok |-> FALSE]
    ELSE
    LET name == WordAt(arg_bytes, 0)
        iface_len == WordAt(arg_bytes, 4)
    IN  \* `as usize` of a u32 above 2^31-1 is beyond any slice
        IF iface_len < 0 \/ iface_len > 65536 THEN [ok |-> FALSE]
        ELSE
        LET padded == padded_len(iface_len)
        IN  IF ~SliceOk(arg_bytes, 8, 8 + iface_len - 1) THEN [ok |-> FALSE]
            ELSE IF ~Utf8Ok(Slice(arg_bytes, 8, 8 + iface_len - 1)) THEN [ok |-> FALSE]
            ELSE IF ~SliceOk(arg_bytes, 8 + padded, 12 + padded) THEN [ok |-> FALSE]
            ELSE IF ~SliceOk(arg_bytes, 12 + padded, 16 + padded) THEN [ok |-> FALSE]
            ELSE [ok |-> TRUE,
                  name |-> name,
                  interface |-> Slice(arg_bytes, 8, 8 + iface_len - 1),
                  version |-> WordAt(arg_bytes, 8 + padded),
                  new_id |-> WordAt(arg_bytes, 12 + padded)]

\* A bind that announces the two formats of wl_shm in the other order.
handle_wl_registry_bind_formats_swapped(c, arg_bytes, global_state) ==
    LET d == DecodeBind(arg_bytes)
    IN  IF ~d.ok THEN Panic(c)
        ELSE
        LET i == FindGlobal(global_state, d.name)
        IN  IF i = 0 THEN Ok(c)
            ELSE
            LET interface == global_state[i].interface
                bound(c1) ==
                    Ok([c1 EXCEPT !.object_registry =
                                    insert(@, d.new_id, [kind |-> interface])])
            IN  IF interface \notin {"Shm", "XdgWmBase", "WlCompositor"} THEN Err(c)
                ELSE IF interface = "Shm"
                THEN AndThen(send_format(c, d.new_id, WlShmFormat_Rgb888),
                       LAMBDA c1 :
                         AndThen(send_format(c1, d.new_id, WlShmFormat_Argb8888), bound))
                ELSE bound(c)

\* wl_registry.bind(name, id: new_id): the object is chosen by the global
\* found under `name`; the interface string of the request is only logged.
handle_wl_registry_bind(c, arg_bytes, global_state) ==
    LET d == DecodeBind(arg_bytes)
    IN  IF ~d.ok THEN Panic(c)
        ELSE
        LET i == FindGlobal(global_state, d.name)
        IN  IF i = 0 THEN Ok(c)
            ELSE
            LET interface == global_state[i].interface
                bound(c1) ==
                    Ok([c1 EXCEPT !.object_registry =
                                    insert(@, d.new_id, [kind |-> interface])])
            IN  IF interface \notin {"Shm", "XdgWmBase", "WlCompositor"} THEN Err(c)
                ELSE IF interface = "Shm"
                THEN AndThen(send_format(c, d.new_id, WlShmFormat_Argb8888),
                       LAMBDA c1 :
                         AndThen(send_format(c1, d.new_id, WlShmFormat_Rgb888), bound))
                ELSE bound(c)

handle_wl_registry_message(c, op_code, arg_bytes, global_state) ==
    CASE op_code = 0 -> handle_wl_registry_bind(c, arg_bytes, global_state)
      [] OTHER -> Ok(c)

----------------------------------------------------------------------------
(* wl_shm, wl_shm_pool, wl_buffer *)

\* Descriptors the kernel refuses to map (a socket, a closed descriptor).
UnmappableFds == {9}

\* Key of a new Arc<Mutex<MmapMut>>
FreshMmap(c) == CHOOSE k \in 1..(Cardinality(DOMAIN c.mmaps) + 1) : k \notin DOMAIN c.mmaps

\* MmapOptions::new().len(size as usize).map_mut(fd): a negative size is a
\* length above isize::MAX and is refused, as is a descriptor that cannot be
\* mapped; a length of 0 is mapped (as one byte) and reported as length 0.
MapMutOk(size, fd) == size >= 0 /\ fd \notin UnmappableFds

\* A create_pool that does nothing when no descriptor is queued.
handle_wl_shm_create_pool_skips_without_fd(c, arg_bytes) ==
    IF ~SliceOk(arg_bytes, 0, 4) \/ ~SliceOk(arg_bytes, 4, 8) THEN Panic(c)
    ELSE
    LET new_id == WordAt(arg_bytes, 0)
        size == WordAt(arg_bytes, 4)
    IN  IF c.pending_fds = <<>> THEN Ok(c)
        ELSE
        LET fd == Head(c.pending_fds)
            c1 == [c EXCEPT !.pending_fds = Tail(@)]
            m == FreshMmap(c1)
        IN  IF ~MapMutOk(size, fd) THEN Err(c1)
            ELSE Ok([c1 EXCEPT
                      !.mmaps = insert(@, m, [len |-> size, fd |-> fd]),
                      !.object_registry = insert(@, new_id, ShmPool(m, fd))])

\* A create_pool that takes the descriptor received last.
handle_wl_shm_create_pool_newest_fd(c, arg_bytes) ==
    IF ~SliceOk(arg_bytes, 0, 4) \/ ~SliceOk(arg_bytes, 4, 8) THEN Panic(c)
    ELSE
    LET new_id == WordAt(arg_bytes, 0)
        size == WordAt(arg_bytes, 4)
    IN  IF c.pending_fds = <<>> THEN Err(c)
        ELSE
        LET fd == c.pending_fds[Len(c.pending_fds)]
            c1 == [c EXCEPT !.pending_fds = SubSeq(@, 1, Len(@) - 1)]
            m == FreshMmap(c1)
        IN  IF ~MapMutOk(size, fd) THEN Err(c1)
            ELSE Ok([c1 EXCEPT
                      !.mmaps = insert(@, m, [len |-> size, fd |-> fd]),
                      !.object_registry = insert(@, new_id, ShmPool(m, fd))])

\* wl_shm.create_pool(id: new_id, fd, size)
handle_wl_shm_create_pool(c, arg_bytes) ==
    IF ~SliceOk(arg_bytes, 0, 4) \/ ~SliceOk(arg_bytes, 4, 8) THEN Panic(c)
    ELSE
    LET new_id == WordAt(arg_bytes, 0)
        size == WordAt(arg_bytes, 4)
    IN  IF c.pending_fds = <<>> THEN Err(c)
        ELSE
        LET fd == Head(c.pending_fds)
            c1 == [c EXCEPT !.pending_fds = Tail(@)]
            m == FreshMmap(c1)
        IN  IF ~MapMutOk(size, fd) THEN Err(c1)
            ELSE Ok([c1 EXCEPT
                      !.mmaps = insert(@, m, [len |-> size, fd |-> fd]),
                      !.object_registry = insert(@, new_id, ShmPool(m, fd))])

\* wl_shm.release()
handle_wl_shm_release(c, object_id) ==
    Ok([c EXCEPT !.object_registry = remove(@, object_id)])

handle_wl_shm_message(c, object_id, op_code, arg_bytes) ==
    CASE op_code = 0 -> handle_wl_shm_create_pool(c, arg_bytes)
      [] op_code = 1 -> handle_wl_shm_release(c, object_id)
      [] OTHER -> Ok(c)

\* wl_shm_pool.create_buffer(id: new_id, offset, width, height, stride, format)
handle_wl_shm_pool_create_buffer(c, arg_bytes, mmap) ==
    IF \E k \in 0..5 : ~SliceOk(arg_bytes, 4 * k, 4 * k + 4) THEN Panic(c)
    ELSE
    LET new_id == WordAt(arg_bytes, 0)
        buffer == Buffer(WordAt(arg_bytes, 4), WordAt(arg_bytes, 8),
                         WordAt(arg_bytes, 12), WordAt(arg_bytes, 16),
                         WordAt(arg_bytes, 20), mmap)
    IN  Ok([c EXCEPT !.object_registry = insert(@, new_id, buffer)])

\* A destroy that unmaps the pool's memory at once.
handle_wl_shm_pool_destroy_unmaps(c, object_id) ==
    LET mmap == c.object_registry[object_id].mmap
    IN  Ok([c EXCEPT !.object_registry = remove(@, object_id),
                     !.mmaps = [k \in DOMAIN @ \ {mmap} |-> @[k]]])

\* wl_shm_pool.destroy()
handle_wl_shm_pool_destroy(c, object_id) ==
    Ok([c EXCEPT !.object_registry = remove(@, object_id)])

\* A resize that lets the kernel move the mapping when it cannot grow in
\* place: the pool gets a new mapping, the buffers keep the old one.
handle_wl_shm_pool_resize_may_move(c, arg_bytes, mmap, env) ==
    IF ~SliceOk(arg_bytes, 0, 4) THEN Panic(c)
    ELSE
    LET new_size == WordAt(arg_bytes, 0)
        grows == new_size < 0 \/ new_size > c.mmaps[mmap].len
        moved == CHOOSE k \in 1..(Cardinality(DOMAIN c.mmaps) + 1) : k \notin DOMAIN c.mmaps
        pools == {id \in DOMAIN c.object_registry :
                    /\ c.object_registry[id].kind = "ShmPool"
                    /\ c.object_registry[id].mmap = mmap}
    IN  IF grows /\ ~env.grow_ok
        THEN Ok([c EXCEPT
                  !.mmaps = insert(@, moved, [len |-> new_size, fd |-> @[mmap].fd]),
                  !.object_registry =
                      [id \in DOMAIN @ |->
                         IF id \in pools THEN [@[id] EXCEPT !.mmap = moved] ELSE @[id]]])
        ELSE Ok([c EXCEPT !.mmaps[mmap].len = new_size])

\* mmap.remap(new_size as usize, RemapOptions::new().may_move(false)): the
\* mapping keeps its address; shrinking succeeds, growing succeeds when the
\* kernel has room behind the mapping (env.grow_ok) and fails otherwise. A
\* new_size above 2^31-1 (negative here) is a growth.
handle_wl_shm_pool_resize(c, arg_bytes, mmap, env) ==
    IF ~SliceOk(arg_bytes, 0, 4) THEN Panic(c)
    ELSE
    LET new_size == WordAt(arg_bytes, 0)
        grows == new_size < 0 \/ new_size > c.mmaps[mmap].len
    IN  IF grows /\ ~env.grow_ok THEN Err(c)
        ELSE Ok([c EXCEPT !.mmaps[mmap].len = new_size])

\* A pool that answers an opcode it does not know with an error.
handle_wl_shm_pool_message_strict(c, object_id, op_code, arg_bytes, env) ==
    LET mmap == c.object_registry[object_id].mmap
    IN  CASE op_code = 0 -> handle_wl_shm_pool_create_buffer(c, arg_bytes, mmap)
          [] op_code = 1 -> handle_wl_shm_pool_destroy(c, object_id)
          [] op_code = 2 -> handle_wl_shm_pool_resize(c, arg_bytes, mmap, env)
          [] OTHER -> Err(c)

handle_wl_shm_pool_message(c, object_id, op_code, arg_bytes, env) ==
    LET mmap == c.object_registry[object_id].mmap
    IN  CASE op_code = 0 -> handle_wl_shm_pool_create_buffer(c, arg_bytes, mmap)
          [] op_code = 1 -> handle_wl_shm_pool_destroy(c, object_id)
          [] op_code = 2 -> handle_wl_shm_pool_resize(c, arg_bytes, mmap, env)
          [] OTHER -> Ok(c)

\* A destroy that leaves the buffer bound.
handle_wl_buffer_destroy_keeps(c, object_id) == Ok(c)

\* A wl_buffer.destroy that answers with an event on the buffer.
handle_wl_buffer_destroy_sends_release(c, object_id) ==
    send_message([c EXCEPT !.object_registry = remove(@, object_id)],
                 object_id, 0, <<>>)

\* wl_buffer.destroy()
handle_wl_buffer_destroy(c, object_id) ==
    Ok([c EXCEPT !.object_registry = remove(@, object_id)])

handle_wl_buffer_message(c, object_id, op_code) ==
    CASE op_code = 0 -> handle_wl_buffer_destroy(c, object_id)
      [] OTHER -> Ok(c)

----------------------------------------------------------------------------
(* wl_compositor *)

\* wl_compositor.create_surface(id: new_id)
handle_wl_compositor_create_surface(c, arg_bytes) ==
    IF ~SliceOk(arg_bytes, 0, 4) THEN Panic(c)
    ELSE Ok([c EXCEPT !.object_registry =
                        insert(@, WordAt(arg_bytes, 0), DefaultSurface)])

\* wl_compositor.create_region(id: new_id)
handle_wl_compositor_create_region(c, arg_bytes) ==
    IF ~SliceOk(arg_bytes, 0, 4) THEN Panic(c)
    ELSE Ok([c EXCEPT !.object_registry = insert(@, WordAt(arg_bytes, 0), WlRegion)])

handle_wl_compositor_message(c, op_code, arg_bytes) ==
    CASE op_code = 0 -> handle_wl_compositor_create_surface(c, arg_bytes)
      [] op_code = 1 -> handle_wl_compositor_create_region(c, arg_bytes)
      [] OTHER -> Ok(c)

----------------------------------------------------------------------------
(* wl_surface *)

\* enum WlOutputTransform: the discriminants 0..7
WlOutputTransform == 0..7

\* std::mem::transmute::<i32, WlOutputTransform>(transform): the variant with
\* that discriminant; for a value that is no discriminant the behaviour is
\* undefined, and the build either keeps the bits as they are or yields some
\* variant (env.ub_transform: None for the bits, Some(v) for the variant v).
transmute(transform, env) ==
    IF transform \in WlOutputTransform THEN transform
    ELSE IF env.ub_transform = None THEN transform
    ELSE env.ub_transform[1]

\* wl_surface.destroy()
handle_wl_surface_destroy(c, object_id) ==
    Ok([c EXCEPT !.object_registry = remove(@, object_id)])

\* An attach that writes the current slot.
handle_wl_surface_attach_to_current(c, object_id, arg_bytes) ==
    IF \E k \in 0..2 : ~SliceOk(arg_bytes, 4 * k, 4 * k + 4) THEN Panic(c)
    ELSE Ok([c EXCEPT !.object_registry[object_id].current_buffer =
                        Some(WordAt(arg_bytes, 0))])

\* wl_surface.attach(buffer, x, y)
handle_wl_surface_attach(c, object_id, arg_bytes) ==
    IF \E k \in 0..2 : ~SliceOk(arg_bytes, 4 * k, 4 * k + 4) THEN Panic(c)
    ELSE Ok([c EXCEPT !.object_registry[object_id].pending_buffer =
                        Some(WordAt(arg_bytes, 0))])

\* A damage that puts the rectangle before the earlier ones.
handle_wl_surface_damage_prepends(c, object_id, arg_bytes) ==
    IF \E k \in 0..3 : ~SliceOk(arg_bytes, 4 * k, 4 * k + 4) THEN Panic(c)
    ELSE Ok([c EXCEPT !.object_registry[object_id].pending_surface_damage =
                        <<<<WordAt(arg_bytes, 0), WordAt(arg_bytes, 4),
                            WordAt(arg_bytes, 8), WordAt(arg_bytes, 12)>>>> \o @])

\* wl_surface.damage(x, y, width, height)
handle_wl_surface_damage(c, object_id, arg_bytes) ==
    IF \E k \in 0..3 : ~SliceOk(arg_bytes, 4 * k, 4 * k + 4) THEN Panic(c)
    ELSE Ok([c EXCEPT !.object_registry[object_id].pending_surface_damage =
                        Append(@, <<WordAt(arg_bytes, 0), WordAt(arg_bytes, 4),
                                    WordAt(arg_bytes, 8), WordAt(arg_bytes, 12)>>)])

\* wl_surface.frame(callback: new_id): the id is pushed on the surface's
\* list, then the Callback is inserted (over the surface itself when new_id
\* is the surface's id).
handle_wl_surface_frame(c, object_id, arg_bytes) ==
    IF ~SliceOk(arg_bytes, 0, 4) THEN Panic(c)
    ELSE
    LET new_id == WordAt(arg_bytes, 0)
        pushed == [c.object_registry EXCEPT ![object_id].frame_callbacks =
                                              Append(@, new_id)]
    IN  Ok([c EXCEPT !.object_registry = insert(pushed, new_id, Callback)])

\* wl_surface.set_opaque_region(region)
handle_wl_surface_set_opaque_region(c, object_id, arg_bytes) ==
    IF ~SliceOk(arg_bytes, 0, 4) THEN Panic(c)
    ELSE Ok([c EXCEPT !.object_registry[object_id].pending_opaque_region =
                        Some(WordAt(arg_bytes, 0))])

\* wl_surface.set_input_region(region)
handle_wl_surface_set_input_region(c, object_id, arg_bytes) ==
    IF ~SliceOk(arg_bytes, 0, 4) THEN Panic(c)
    ELSE Ok([c EXCEPT !.object_registry[object_id].pending_input_region =
                        Some(WordAt(arg_bytes, 0))])

\* A commit that leaves the scale out of the swap.
CommitState_WithoutScale(surface) ==
    [surface EXCEPT
        !.current_buffer = surface.pending_buffer,
        !.pending_buffer = None,
        !.current_surface_damage = surface.pending_surface_damage,
        !.pending_surface_damage = <<>>,
        !.current_buffer_damage = surface.pending_buffer_damage,
        !.pending_buffer_damage = <<>>,
        !.current_opaque_region = surface.pending_opaque_region,
        !.pending_opaque_region = None,
        !.current_input_region = surface.pending_input_region,
        !.pending_input_region = None,
        !.current_transform = surface.pending_transform,
        !.current_offset = surface.pending_offset,
        !.frame_callbacks = <<>>]

\* A commit that copies the buffer (clone) where the program takes it.
CommitState_KeepsPendingBuffer(surface) ==
    [surface EXCEPT
        !.current_buffer = surface.pending_buffer,
        !.current_surface_damage = surface.pending_surface_damage,
        !.pending_surface_damage = <<>>,
        !.current_buffer_damage = surface.pending_buffer_damage,
        !.pending_buffer_damage = <<>>,
        !.current_opaque_region = surface.pending_opaque_region,
        !.pending_opaque_region = None,
        !.current_input_region = surface.pending_input_region,
        !.pending_input_region = None,
        !.current_transform = surface.pending_transform,
        !.current_scale = surface.pending_scale,
        !.current_offset = surface.pending_offset,
        !.frame_callbacks = <<>>]

\* The state part of wl_surface.commit: Option::take and mem::take move the
\* pending value into the current slot and leave None / an empty Vec behind;
\* transform, scale and offset are copied; the callback list is drained.
CommitState(surface) ==
    [surface EXCEPT
        !.current_buffer = surface.pending_buffer,
        !.pending_buffer = None,
        !.current_surface_damage = surface.pending_surface_damage,
        !.pending_surface_damage = <<>>,
        !.current_buffer_damage = surface.pending_buffer_damage,
        !.pending_buffer_damage = <<>>,
        !.current_opaque_region = surface.pending_opaque_region,
        !.pending_opaque_region = None,
        !.current_input_region = surface.pending_input_region,
        !.pending_input_region = None,
        !.current_transform = surface.pending_transform,
        !.current_scale = surface.pending_scale,
        !.current_offset = surface.pending_offset,
        !.frame_callbacks = <<>>]

\* A loop that completes the callbacks from the last one to the first.
RECURSIVE send_callbacks_done_reversed(_, _)
send_callbacks_done_reversed(c, callback_ids) ==
    IF callback_ids = <<>> THEN Ok(c)
    ELSE AndThen(send_callback_done(c, callback_ids[Len(callback_ids)], 0),
                 LAMBDA c1 : send_callbacks_done_reversed(
                                 c1, SubSeq(callback_ids, 1, Len(callback_ids) - 1)))

\* the `for callback_id in callback_ids { send_callback_done(..).await? }` loop
RECURSIVE send_callbacks_done(_, _)
send_callbacks_done(c, callback_ids) ==
    IF callback_ids = <<>> THEN Ok(c)
    ELSE AndThen(send_callback_done(c, Head(callback_ids), 0),
                 LAMBDA c1 : send_callbacks_done(c1, Tail(callback_ids)))

\* wl_surface.commit()
handle_wl_surface_commit(c, object_id) ==
    LET surface == c.object_registry[object_id]
        callback_ids == surface.frame_callbacks
        c1 == [c EXCEPT !.object_registry[object_id] = CommitState(surface)]
    IN  send_callbacks_done(c1, callback_ids)

\* wl_surface.set_buffer_transform(transform)
handle_wl_surface_set_buffer_transform(c, object_id, arg_bytes, env) ==
    IF ~SliceOk(arg_bytes, 0, 4) THEN Panic(c)
    ELSE Ok([c EXCEPT !.object_registry[object_id].pending_transform =
                        transmute(WordAt(arg_bytes, 0), env)])

\* wl_surface.set_buffer_scale(scale)
handle_wl_surface_set_buffer_scale(c, object_id, arg_bytes) ==
    IF ~SliceOk(arg_bytes, 0, 4) THEN Panic(c)
    ELSE Ok([c EXCEPT !.object_registry[object_id].pending_scale =
                        WordAt(arg_bytes, 0)])

\* wl_surface.damage_buffer(x, y, width, height)
handle_wl_surface_damage_buffer(c, object_id, arg_bytes) ==
    IF \E k \in 0..3 : ~SliceOk(arg_bytes, 4 * k, 4 * k + 4) THEN Panic(c)
    ELSE Ok([c EXCEPT !.object_registry[object_id].pending_buffer_damage =
                        Append(@, <<WordAt(arg_bytes, 0), WordAt(arg_bytes, 4),
                                    WordAt(arg_bytes, 8), WordAt(arg_bytes, 12)>>)])

\* wl_surface.offset(x, y)
handle_wl_surface_offset(c, object_id, arg_bytes) ==
    IF \E k \in 0..1 : ~SliceOk(arg_bytes, 4 * k, 4 * k + 4) THEN Panic(c)
    ELSE Ok([c EXCEPT !.object_registry[object_id].pending_offset =
                        <<WordAt(arg_bytes, 0), WordAt(arg_bytes, 4)>>])

handle_wl_surface_message(c, object_id, op_code, arg_bytes, env) ==
    CASE op_code = 0 -> handle_wl_surface_destroy(c, object_id)
      [] op_code = 1 -> handle_wl_surface_attach(c, object_id, arg_bytes)
      [] op_code = 2 -> handle_wl_surface_damage(c, object_id, arg_bytes)
      [] op_code = 3 -> handle_wl_surface_frame(c, object_id, arg_bytes)
      [] op_code = 4 -> handle_wl_surface_set_opaque_region(c, object_id, arg_bytes)
      [] op_code = 5 -> handle_wl_surface_set_input_region(c, object_id, arg_bytes)
      [] op_code = 6 -> handle_wl_surface_commit(c, object_id)
      [] op_code = 7 -> handle_wl_surface_set_buffer_transform(c, object_id, arg_bytes, env)
      [] op_code = 8 -> handle_wl_surface_set_buffer_scale(c, object_id, arg_bytes)
      [] op_code = 9 -> handle_wl_surface_damage_buffer(c, object_id, arg_bytes)
      [] op_code = 10 -> handle_wl_surface_offset(c, object_id, arg_bytes)
      [] OTHER -> Ok(c)

----------------------------------------------------------------------------
(* The dispatcher. *)

\* Dropping the last Arc of a mapping unmaps it: the mappings still held by
\* a pool or a buffer of the registry.
HeldMmaps(reg) ==
    {reg[id].mmap : id \in {i \in DOMAIN reg : reg[i].kind = "ShmPool"}}
    \cup {reg[id].shm_pool : id \in {i \in DOMAIN reg : reg[i].kind = "Buffer"}}

DropUnheld(c) ==
    [c EXCEPT !.mmaps = [k \in (DOMAIN c.mmaps) \cap HeldMmaps(c.object_registry)
                           |-> c.mmaps[k]]]

\* A dispatch that answers a request on an id that is not bound with an error.
handle_message_unknown_id_fatal(c, object_id, op_code, arg_bytes, global_state, env) ==
    IF object_id \notin DOMAIN c.object_registry THEN Err(c)
    ELSE
    LET kind == c.object_registry[object_id].kind
        r == CASE kind = "Display" ->
                    handle_wl_display_message(c, op_code, arg_bytes, global_state)
               [] kind = "Registry" ->
                    handle_wl_registry_message(c, op_code, arg_bytes, global_state)
               [] kind = "Shm" ->
                    handle_wl_shm_message(c, object_id, op_code, arg_bytes)
               [] kind = "ShmPool" ->
                    handle_wl_shm_pool_message(c, object_id, op_code, arg_bytes, env)
               [] kind = "Buffer" ->
                    handle_wl_buffer_message(c, object_id, op_code)
               [] kind = "WlCompositor" ->
                    handle_wl_compositor_message(c, op_code, arg_bytes)
               [] kind = "WlSurface" ->
                    handle_wl_surface_message(c, object_id, op_code, arg_bytes, env)
               [] OTHER -> Ok(c)
    IN  [c |-> DropUnheld(r.c), res |-> r.res]

\* CompositorClientState::handle_message
handle_message(c, object_id, op_code, arg_bytes, global_state, env) ==
    IF object_id \notin DOMAIN c.object_registry THEN Ok(c)
    ELSE
    LET kind == c.object_registry[object_id].kind
        r == CASE kind = "Display" ->
                    handle_wl_display_message(c, op_code, arg_bytes, global_state)
               [] kind = "Registry" ->
                    handle_wl_registry_message(c, op_code, arg_bytes, global_state)
               [] kind = "Shm" ->
                    handle_wl_shm_message(c, object_id, op_code, arg_bytes)
               [] kind = "ShmPool" ->
                    handle_wl_shm_pool_message(c, object_id, op_code, arg_bytes, env)
               [] kind = "Buffer" ->
                    handle_wl_buffer_message(c, object_id, op_code)
               [] kind = "WlCompositor" ->
                    handle_wl_compositor_message(c, op_code, arg_bytes)
               [] kind = "WlSurface" ->
                    handle_wl_surface_message(c, object_id, op_code, arg_bytes, env)
               [] OTHER -> Ok(c)   \* Callback, WlRegion, XdgWmBase
    IN  [c |-> DropUnheld(r.c), res |-> r.res]

----------------------------------------------------------------------------
(* The client task: receive loop and frame assembler. *)

\* `return` from the task (or its unwinding after a panic): client_state, data
\* and pending_fds are dropped; what was written to the socket stays written.
Exit(c, reason) ==
    [c EXCEPT !.status = "exited", !.exit = reason,
              !.object_registry = <<>>, !.mmaps = <<>>,
              !.data = <<>>, !.pending_fds = <<>>]

\* A drain loop that logs a handler's error and goes on with the next frame.
RECURSIVE Drain_GoesOnAfterError(_, _, _)
Drain_GoesOnAfterError(c, global_state, env) ==
    IF ~(Len(c.data) >= 8 /\ Len(c.data) >= U16FromLe(c.data[7], c.data[8]))
    THEN c
    ELSE
    LET object_id == WordAt(c.data, 0)
        op_code == U16FromLe(c.data[5], c.data[6])
        message_length == U16FromLe(c.data[7], c.data[8])
    IN  IF message_length < 8
        THEN Exit([c EXCEPT !.data = SubSeq(@, 9, Len(@))], "panic")
        ELSE
        LET args_buffer == SubSeq(c.data, 9, message_length)
            c1 == [c EXCEPT
                     !.data = SubSeq(@, message_length + 1, Len(@)),
                     !.dispatched = Append(@, <<object_id, op_code, args_buffer>>),
                     !.n_dispatched = @ + 1]
            r == handle_message(c1, object_id, op_code, args_buffer, global_state, env)
        IN  CASE r.res = "panic" -> Exit(r.c, "panic")
              [] OTHER -> Drain_GoesOnAfterError(r.c, global_state, env)

\* The `while data.len() >= 8 && data.len() >= length` loop: pops the header
\* and `length - 8` argument bytes, calls handle_message, and on an error
\* shuts the stream down and returns.
RECURSIVE Drain(_, _, _)
Drain(c, global_state, env) ==
    IF ~(Len(c.data) >= 8 /\ Len(c.data) >= U16FromLe(c.data[7], c.data[8]))
    THEN c
    ELSE
    LET object_id == WordAt(c.data, 0)
        op_code == U16FromLe(c.data[5], c.data[6])
        message_length == U16FromLe(c.data[7], c.data[8])
    IN  \* message_length as usize - 8 below 0: the subtraction overflows
        \* (debug build) or the Vec of 2^64 - k bytes cannot be allocated
        IF message_length < 8
        THEN Exit([c EXCEPT !.data = SubSeq(@, 9, Len(@))], "panic")
        ELSE
        LET args_buffer == SubSeq(c.data, 9, message_length)
            c1 == [c EXCEPT
                     !.data = SubSeq(@, message_length + 1, Len(@)),
                     !.dispatched = Append(@, <<object_id, op_code, args_buffer>>),
                     !.n_dispatched = @ + 1]
            r == handle_message(c1, object_id, op_code, args_buffer, global_state, env)
        IN  CASE r.res = "err" -> Exit([r.c EXCEPT !.wr_shutdown = TRUE], "error")
              [] r.res = "panic" -> Exit(r.c, "panic")
              [] OTHER -> Drain(r.c, global_state, env)

\* A read that replaces the queued bytes where the program appends to them.
HandleRead_ForgetsPartialFrame(c, bytes, fds, global_state, env) ==
    IF bytes = <<>> /\ fds = <<>>
    THEN Exit(c, "eof")
    ELSE LET after == Drain([c EXCEPT !.data = bytes,
                                      !.pending_fds = @ \o fds,
                                      !.sent = <<>>, !.dispatched = <<>>],
                            global_state, env)
         IN  [after EXCEPT !.repeated = (after.dispatched = c.dispatched)]

\* One turn of the receive loop for a read that returned Ok((data_read,
\* fds_read)): (0, 0) ends the task, anything else is queued and drained.
HandleRead(c, bytes, fds, global_state, env) ==
    IF bytes = <<>> /\ fds = <<>>
    THEN Exit(c, "eof")
    ELSE LET after == Drain([c EXCEPT !.data = @ \o bytes,
                                      !.pending_fds = @ \o fds,
                                      !.sent = <<>>, !.dispatched = <<>>],
                            global_state, env)
         IN  [after EXCEPT !.repeated = (after.dispatched = c.dispatched)]

----------------------------------------------------------------------------
(* The environment: what the kernel and the compiler leave open. *)

Envs ==
    [grow_ok : BOOLEAN, ub_transform : {None} \cup {Some(v) : v \in WlOutputTransform}]

DefaultEnv == [grow_ok |-> TRUE, ub_transform |-> None]

\* The choices that can matter to a read of these bytes: growth of a mapping
\* matters to opcode 2 and the meaning of a bad transform to opcode 7.
RECURSIVE OpCodesIn(_)
OpCodesIn(bytes) ==
    IF Len(bytes) < 8 THEN {}
    ELSE LET l == U16FromLe(bytes[7], bytes[8])
         IN  {U16FromLe(bytes[5], bytes[6])}
             \cup (IF l < 8 \/ l > Len(bytes) THEN {}
                   ELSE OpCodesIn(SubSeq(bytes, l + 1, Len(bytes))))

EnvsFor(bytes) ==
    {e \in Envs :
        /\ (2 \notin OpCodesIn(bytes) => e.grow_ok = DefaultEnv.grow_ok)
        /\ (7 \notin OpCodesIn(bytes) => e.ub_transform = DefaultEnv.ub_transform)}

----------------------------------------------------------------------------
(* Actions. *)

Running(cl) == cl \in DOMAIN clients /\ clients[cl].status = "running"

\* listener.accept() and tokio::spawn of the client task
Accept(cl) ==
    /\ cl \notin DOMAIN clients
    /\ clients' = clients @@ (cl :> NewClient)
    /\ UNCHANGED <<globals, steps, wire>>

\* recv_with_fd returned `bytes` and `fds`; the task handles them.
Recv(cl, bytes, fds) ==
    /\ Running(cl)
    /\ \E env \in EnvsFor(clients[cl].data \o bytes) :
          clients' = [clients EXCEPT
                        ![cl] = HandleRead(@, bytes, fds, globals, env)]

\* A read, in the runs that count their reads.
Read(cl, bytes, fds, bound) ==
    /\ steps < bound
    /\ Recv(cl, bytes, fds)
    /\ steps' = steps + 1
    /\ UNCHANGED <<globals, wire>>

\* recv_with_fd returned Ok((0, 0)): the peer closed the connection.
PeerEof(cl) ==
    /\ Running(cl)
    /\ clients' = [clients EXCEPT
                      ![cl] = HandleRead(@, <<>>, <<>>, globals, DefaultEnv)]
    /\ UNCHANGED <<globals, steps, wire>>

\* The peer stops reading: from now on a write to the socket fails.
PeerClose(cl) ==
    /\ Running(cl)
    /\ clients[cl].peer_open
    /\ clients' = [clients EXCEPT ![cl].peer_open = FALSE]
    /\ UNCHANGED <<globals, steps, wire>>

NoWire == [script |-> <<>>, pos |-> 0]

Init ==
    /\ clients = <<>>
    /\ globals = DefaultGlobals
    /\ steps = 0
    /\ wire = NoWire

----------------------------------------------------------------------------
(* Requests of a client, one frame per read: the object lifecycle. *)

ClientNames == {"c1"}

\* One read that brings exactly the frame of one request.
Request(cl, object_id, op_code, args, fds, bound) ==
    Read(cl, WireFrame(object_id, op_code, args), fds, bound)

\* The ids the client uses: 1 the display, 2 its registry, 3 a bound global,
\* 4 a pool or a surface, 5 a buffer, a region or a callback.
SyncIds == {1, 5}
RegistryIds == {2}
GlobalIds == {3}
PoolIds == {4}
BufferIds == {4, 5}
SurfaceIds == {4}
RegionIds == {5}
CallbackIds == {4, 5}

\* Global names a client binds, with the interface string it sends: the
\* advertised ones, a name that no global has, and the name of wl_shm with
\* a string that is not its interface.
BindChoices ==
    {<<1, Str_wl_shm>>, <<2, Str_wl_compositor>>, <<3, Str_xdg_wm_base>>,
     <<4, Str_bogus>>, <<1, Str_bogus>>, <<1, Str_wl_compositor>>}

BindArgs(name, interface, version, new_id) ==
    Le32(name) \o get_string_bytes(interface) \o Le32(version) \o Le32(new_id)

PoolSizes == {0, 64}
ResizeSizes == {32, 128}
ClientFds == {<<>>, <<7>>, <<9>>}
BufferShapes == {<<0, 4, 4, 16, 0>>, <<32, 4, 4, 16, 0>>}

WlDisplaySync(cl) ==
    \E n \in SyncIds : Request(cl, 1, 0, Le32(n), <<>>, MaxSteps)

WlDisplayGetRegistry(cl) ==
    \E n \in RegistryIds : Request(cl, 1, 1, Le32(n), <<>>, MaxSteps)

WlRegistryBind(cl) ==
    \E t \in RegistryIds, b \in BindChoices, n \in GlobalIds :
        Request(cl, t, 0, BindArgs(b[1], b[2], 1, n), <<>>, MaxSteps)

WlShmCreatePool(cl) ==
    \E t \in GlobalIds, n \in PoolIds, size \in PoolSizes, fds \in ClientFds :
        Request(cl, t, 0, Le32(n) \o Le32(size), fds, MaxSteps)

WlShmRelease(cl) ==
    \E t \in GlobalIds : Request(cl, t, 1, <<>>, <<>>, MaxSteps)

WlShmPoolCreateBuffer(cl) ==
    \E t \in PoolIds, n \in BufferIds, b \in BufferShapes :
        Request(cl, t, 0, Le32(n) \o Words(b), <<>>, MaxSteps)

WlShmPoolDestroy(cl) ==
    \E t \in PoolIds : Request(cl, t, 1, <<>>, <<>>, MaxSteps)

WlShmPoolResize(cl) ==
    \E t \in PoolIds, size \in ResizeSizes :
        Request(cl, t, 2, Le32(size), <<>>, MaxSteps)

WlBufferDestroy(cl) ==
    \E t \in BufferIds : Request(cl, t, 0, <<>>, <<>>, MaxSteps)

WlCompositorCreateSurface(cl) ==
    \E t \in GlobalIds, n \in SurfaceIds : Request(cl, t, 0, Le32(n), <<>>, MaxSteps)

WlCompositorCreateRegion(cl) ==
    \E t \in GlobalIds, n \in RegionIds : Request(cl, t, 1, Le32(n), <<>>, MaxSteps)

WlSurfaceFrame(cl) ==
    \E t \in SurfaceIds, n \in CallbackIds : Request(cl, t, 3, Le32(n), <<>>, MaxSteps)

WlSurfaceCommit(cl) ==
    \E t \in SurfaceIds : Request(cl, t, 6, <<>>, <<>>, MaxSteps)

Next ==
    \E cl \in ClientNames :
        \/ Accept(cl)
        \/ PeerEof(cl)
        \/ PeerClose(cl)
        \/ WlDisplaySync(cl)
        \/ WlDisplayGetRegistry(cl)
        \/ WlRegistryBind(cl)
        \/ WlShmCreatePool(cl)
        \/ WlShmRelease(cl)
        \/ WlShmPoolCreateBuffer(cl)
        \/ WlShmPoolDestroy(cl)
        \/ WlShmPoolResize(cl)
        \/ WlBufferDestroy(cl)
        \/ WlCompositorCreateSurface(cl)
        \/ WlCompositorCreateRegion(cl)
        \/ WlSurfaceFrame(cl)
        \/ WlSurfaceCommit(cl)

Spec == Init /\ [][Next]_vars

----------------------------------------------------------------------------
(* Requests of a client on one surface. *)

\* The client's first write, read in one piece: get_registry(2), bind of
\* wl_compositor as 3, create_surface(4).
HandshakeBytes ==
    WireFrame(1, 1, Le32(2))
    \o WireFrame(2, 0, BindArgs(2, Str_wl_compositor, 6, 3))
    \o WireFrame(3, 0, Le32(4))

AttachBuffers == {9}
DamageRects == {<<0, 0, 10, 10>>, <<5, 5, 1, 1>>}
FrameIds == {100, 101}
OpaqueRegions == {5}
InputRegions == {6}
Transforms == {1, 8}
Scales == {2}
Offsets == {<<3, 4>>}

SurfaceHandshake(cl) == Read(cl, HandshakeBytes, <<>>, MaxSurfaceSteps)

SurfaceCreateAgain(cl) ==
    \E n \in SurfaceIds : Request(cl, 3, 0, Le32(n), <<>>, MaxSurfaceSteps)

SurfaceDestroy(cl) ==
    \E t \in SurfaceIds : Request(cl, t, 0, <<>>, <<>>, MaxSurfaceSteps)

SurfaceAttach(cl) ==
    \E t \in SurfaceIds, b \in AttachBuffers :
        Request(cl, t, 1, Words(<<b, 0, 0>>), <<>>, MaxSurfaceSteps)

SurfaceDamage(cl) ==
    \E t \in SurfaceIds, r \in DamageRects :
        Request(cl, t, 2, Words(r), <<>>, MaxSurfaceSteps)

SurfaceFrame(cl) ==
    \E t \in SurfaceIds, n \in FrameIds :
        Request(cl, t, 3, Le32(n), <<>>, MaxSurfaceSteps)

SurfaceSetOpaqueRegion(cl) ==
    \E t \in SurfaceIds, r \in OpaqueRegions :
        Request(cl, t, 4, Le32(r), <<>>, MaxSurfaceSteps)

SurfaceSetInputRegion(cl) ==
    \E t \in SurfaceIds, r \in InputRegions :
        Request(cl, t, 5, Le32(r), <<>>, MaxSurfaceSteps)

SurfaceCommit(cl) ==
    \E t \in SurfaceIds : Request(cl, t, 6, <<>>, <<>>, MaxSurfaceSteps)

SurfaceSetBufferTransform(cl) ==
    \E t \in SurfaceIds, v \in Transforms :
        Request(cl, t, 7, Le32(v), <<>>, MaxSurfaceSteps)

SurfaceSetBufferScale(cl) ==
    \E t \in SurfaceIds, v \in Scales :
        Request(cl, t, 8, Le32(v), <<>>, MaxSurfaceSteps)

SurfaceDamageBuffer(cl) ==
    \E t \in SurfaceIds, r \in DamageRects :
        Request(cl, t, 9, Words(r), <<>>, MaxSurfaceSteps)

SurfaceOffset(cl) ==
    \E t \in SurfaceIds, o \in Offsets :
        Request(cl, t, 10, Words(o), <<>>, MaxSurfaceSteps)

NextSurface ==
    \E cl \in ClientNames :
        \/ Accept(cl)
        \/ PeerEof(cl)
        \/ PeerClose(cl)
        \/ SurfaceHandshake(cl)
        \/ SurfaceCreateAgain(cl)
        \/ SurfaceDestroy(cl)
        \/ SurfaceAttach(cl)
        \/ SurfaceDamage(cl)
        \/ SurfaceFrame(cl)
        \/ SurfaceSetOpaqueRegion(cl)
        \/ SurfaceSetInputRegion(cl)
        \/ SurfaceCommit(cl)
        \/ SurfaceSetBufferTransform(cl)
        \/ SurfaceSetBufferScale(cl)
        \/ SurfaceDamageBuffer(cl)
        \/ SurfaceOffset(cl)

SpecSurface == Init /\ [][NextSurface]_vars

----------------------------------------------------------------------------
(* A client's byte stream, read in pieces of any size. *)

\* The size of the receive buffer: let mut buffer = [0u8; 4096]
RecvBufferSize == 4096

\* What one read can return: a few sizes, down to single bytes, and as much
\* as the buffer takes.
ChunkSizes == {1, 3, 8, RecvBufferSize}

\* A script is what the client writes: its frames in order, with the
\* descriptors passed along each. A descriptor travels with one byte of the
\* stream: the first or the last byte of its frame.
Item(frame, fds, attach) == [frame |-> frame, fds |-> fds, attach |-> attach]

ScriptHead ==
    << Item(WireFrame(1, 1, Le32(2)), <<>>, "first"),
       Item(WireFrame(2, 0, BindArgs(1, Str_wl_shm, 1, 3)), <<>>, "first") >>

\* create_pool(4) with descriptor 7 sent with the frame's last byte,
\* create_pool(5) with descriptors 8 and 6 (one too many, and ahead of the
\* frame that takes it), create_pool(4) with no descriptor, sync(6), and a
\* request on an id that is not bound.
TailItems ==
    {Item(WireFrame(3, 0, Le32(4) \o Le32(64)), <<7>>, "last")}
    \cup {Item(WireFrame(3, 0, Le32(5) \o Le32(64)), <<8, 6>>, "first")}
    \cup {Item(WireFrame(3, 0, Le32(4) \o Le32(64)), <<>>, "first")}
    \cup {Item(WireFrame(1, 0, Le32(6)), <<>>, "first")}
    \cup {Item(WireFrame(9, 6, <<>>), <<>>, "first")}

RECURSIVE SeqsUpTo(_, _)
SeqsUpTo(S, n) ==
    IF n = 0 THEN {<<>>}
    ELSE LET shorter == SeqsUpTo(S, n - 1)
         IN  shorter \cup {Append(q, x) : q \in shorter, x \in S}

Scripts == {ScriptHead \o tail : tail \in SeqsUpTo(TailItems, MaxTailFrames)}

StreamBytes(script) == Flatten([i \in 1..Len(script) |-> script[i].frame])

\* Offset (0-based) of the first byte of item i
RECURSIVE ItemOffset(_, _)
ItemOffset(script, i) ==
    IF i = 1 THEN 0 ELSE ItemOffset(script, i - 1) + Len(script[i - 1].frame)

AttachPos(script, i) ==
    IF script[i].attach = "first"
    THEN ItemOffset(script, i)
    ELSE ItemOffset(script, i) + Len(script[i].frame) - 1

\* The descriptors that travel with the bytes at offsets from..to-1, in the
\* order of their bytes, which is the order of their frames
FdsWithBytes(script, from, to) ==
    Flatten([i \in 1..Len(script) |->
               IF from <= AttachPos(script, i) /\ AttachPos(script, i) < to
               THEN script[i].fds ELSE <<>>])

InitFraming ==
    /\ clients = <<>>
    /\ globals = DefaultGlobals
    /\ steps = 0
    /\ wire \in {[script |-> sc, pos |-> 0] : sc \in Scripts}

\* A read returns the next n bytes the peer wrote (fewer at the end of the
\* stream) and the descriptors that travel with them.
Deliver(cl) ==
    \E n \in ChunkSizes :
        LET bytes == StreamBytes(wire.script)
            to == IF wire.pos + n > Len(bytes) THEN Len(bytes) ELSE wire.pos + n
        IN  /\ wire.pos < Len(bytes)
            /\ Recv(cl, SubSeq(bytes, wire.pos + 1, to),
                    FdsWithBytes(wire.script, wire.pos, to))
            /\ wire' = [wire EXCEPT !.pos = to]
            /\ UNCHANGED <<globals, steps>>

NextFraming ==
    \E cl \in ClientNames :
        \/ Accept(cl)
        \/ PeerEof(cl)
        \/ Deliver(cl)

SpecFraming == InitFraming /\ [][NextFraming]_vars

----------------------------------------------------------------------------
(* Two client tasks, step by step: the awaits of a task are the points where
   the other task runs. *)

TaskNames == {"c1", "c2"}

\* The client task after tokio::spawn, before its first await:
\*   pc     where the task is: "readable" (suspended in readable().await),
\*          "recv" (calling recv_with_fd), "frame" (testing the while
\*          condition), "lock" (suspended in lock().await), "dispatch" (in
\*          handle_message), "done" (returned)
\*   guard  the task owns the MutexGuard of the global state
\*   frame  the (object_id, op_code, args) popped from the queue
\*   polls  reads that returned WouldBlock
NewTask ==
    [pc |-> "readable", guard |-> FALSE, frame |-> <<>>, polls |-> 0] @@ NewClient

At(cl, pc) ==
    /\ cl \in DOMAIN clients
    /\ clients[cl].status = "running"
    /\ clients[cl].pc = pc

\* `return` from the task at one of the places where it holds no guard
TaskExit(c, reason) == [Exit(c, reason) EXCEPT !.pc = "done"]

\* listener.accept() and tokio::spawn
TaskAccept(cl) ==
    /\ cl \notin DOMAIN clients
    /\ clients' = clients @@ (cl :> NewTask)
    /\ UNCHANGED <<globals, steps, wire>>

\* readable().await returns Ok: the task enters the receive loop
TaskReadable(cl) ==
    /\ At(cl, "readable")
    /\ clients' = [clients EXCEPT ![cl].pc = "recv"]
    /\ UNCHANGED <<globals, steps, wire>>

\* What a read of a task-level run brings: sync(2), get_registry(2), a
\* request on an id that is not bound, a sync without its argument, and in
\* one piece get_registry(2), the bind of wl_shm as 3 and a create_pool(4)
\* for which no descriptor was sent.
TaskReads ==
    { WireFrame(1, 0, Le32(2)),
      WireFrame(1, 1, Le32(2)),
      WireFrame(9, 6, <<>>),
      WireFrame(1, 0, <<>>),
      WireFrame(1, 1, Le32(2)) \o WireFrame(2, 0, BindArgs(1, Str_wl_shm, 1, 3))
         \o WireFrame(3, 0, Le32(4) \o Le32(64)) }

\* recv_with_fd returns Ok((data_read, fds_read)): the bytes are queued
TaskRecv(cl) ==
    /\ At(cl, "recv")
    /\ steps < MaxTaskReads
    /\ \E bytes \in TaskReads :
          clients' = [clients EXCEPT
                        ![cl] = [@ EXCEPT !.data = @ \o bytes,
                                          !.sent = <<>>, !.dispatched = <<>>,
                                          !.pc = "frame"]]
    /\ steps' = steps + 1
    /\ UNCHANGED <<globals, wire>>

\* recv_with_fd returns Ok((0, 0)): return
TaskEof(cl) ==
    /\ At(cl, "recv")
    /\ clients' = [clients EXCEPT ![cl] = TaskExit(@, "eof")]
    /\ UNCHANGED <<globals, steps, wire>>

\* recv_with_fd returns Err(WouldBlock): `continue`, straight to the next
\* recv_with_fd
TaskWouldBlock(cl) ==
    /\ At(cl, "recv")
    /\ clients[cl].polls < MaxPolls
    /\ clients' = [clients EXCEPT ![cl].polls = @ + 1]
    /\ UNCHANGED <<globals, steps, wire>>

\* readable().await or recv_with_fd returns another error: return
TaskIoError(cl) ==
    /\ \/ At(cl, "readable")
       \/ At(cl, "recv")
    /\ clients' = [clients EXCEPT ![cl] = TaskExit(@, "io")]
    /\ UNCHANGED <<globals, steps, wire>>

\* The while condition and, when a whole frame is queued, the pops of its
\* header and arguments.
TaskFrame(cl) ==
    /\ At(cl, "frame")
    /\ LET c == clients[cl]
       IN  IF ~(Len(c.data) >= 8 /\ Len(c.data) >= U16FromLe(c.data[7], c.data[8]))
           THEN clients' = [clients EXCEPT ![cl].pc = "recv"]
           ELSE
           LET object_id == WordAt(c.data, 0)
               op_code == U16FromLe(c.data[5], c.data[6])
               message_length == U16FromLe(c.data[7], c.data[8])
           IN  IF message_length < 8
               THEN clients' = [clients EXCEPT ![cl] =
                                  TaskExit([c EXCEPT !.data = SubSeq(@, 9, Len(@))],
                                           "panic")]
               ELSE
               LET args_buffer == SubSeq(c.data, 9, message_length)
               IN  clients' = [clients EXCEPT ![cl] =
                      [c EXCEPT
                         !.data = SubSeq(@, message_length + 1, Len(@)),
                         !.frame = <<object_id, op_code, args_buffer>>,
                         !.dispatched = Append(@, <<object_id, op_code, args_buffer>>),
                         !.n_dispatched = @ + 1,
                         !.pc = "lock"]]
    /\ UNCHANGED <<globals, steps, wire>>

\* global_state_mutex.lock().await returns the guard: no other task has it
TaskLock(cl) ==
    /\ At(cl, "lock")
    /\ \A other \in DOMAIN clients : ~clients[other].guard
    /\ clients' = [clients EXCEPT ![cl].guard = TRUE, ![cl].pc = "dispatch"]
    /\ UNCHANGED <<globals, steps, wire>>

\* A dispatch after which the registry of the task is the registry of every
\* running task.
TaskDispatch_SharedRegistry(cl) ==
    /\ At(cl, "dispatch")
    /\ LET c == clients[cl]
           r == handle_message(c, c.frame[1], c.frame[2], c.frame[3], globals, DefaultEnv)
           released == [r.c EXCEPT !.guard = FALSE]
       IN  clients' =
              [k \in DOMAIN clients |->
                 IF k = cl
                 THEN CASE r.res = "err" ->
                             TaskExit([released EXCEPT !.wr_shutdown = TRUE], "error")
                        [] r.res = "panic" -> TaskExit(released, "panic")
                        [] OTHER -> [released EXCEPT !.pc = "frame"]
                 ELSE IF clients[k].status = "running"
                 THEN [clients[k] EXCEPT !.object_registry = released.object_registry]
                 ELSE clients[k]]
    /\ UNCHANGED <<globals, steps, wire>>

\* A dispatch that keeps the guard in the task when the handler fails.
TaskDispatch_KeepsGuardOnError(cl) ==
    /\ At(cl, "dispatch")
    /\ LET c == clients[cl]
           r == handle_message(c, c.frame[1], c.frame[2], c.frame[3], globals, DefaultEnv)
           released == [r.c EXCEPT !.guard = FALSE]
       IN  clients' = [clients EXCEPT ![cl] =
              CASE r.res = "err" -> TaskExit([r.c EXCEPT !.wr_shutdown = TRUE], "error")
                [] r.res = "panic" -> TaskExit(released, "panic")
                [] OTHER -> [released EXCEPT !.pc = "frame"]]
    /\ UNCHANGED <<globals, steps, wire>>

\* A dispatch in which a panic of the task ends the process.
TaskDispatch_PanicAborts(cl) ==
    /\ At(cl, "dispatch")
    /\ LET c == clients[cl]
           r == handle_message(c, c.frame[1], c.frame[2], c.frame[3], globals, DefaultEnv)
           released == [r.c EXCEPT !.guard = FALSE]
       IN  clients' =
              [k \in DOMAIN clients |->
                 IF r.res = "panic"
                 THEN TaskExit([(IF k = cl THEN released ELSE clients[k])
                                   EXCEPT !.guard = FALSE], "panic")
                 ELSE IF k # cl THEN clients[k]
                 ELSE IF r.res = "err"
                 THEN TaskExit([released EXCEPT !.wr_shutdown = TRUE], "error")
                 ELSE [released EXCEPT !.pc = "frame"]]
    /\ UNCHANGED <<globals, steps, wire>>

\* handle_message(.., global_state).await: the guard is moved into the call
\* and dropped when the call returns or unwinds; on Err the task shuts the
\* stream down and returns, on Ok it tests the while condition again.
TaskDispatch(cl) ==
    /\ At(cl, "dispatch")
    /\ LET c == clients[cl]
           r == handle_message(c, c.frame[1], c.frame[2], c.frame[3], globals, DefaultEnv)
           released == [r.c EXCEPT !.guard = FALSE]
       IN  clients' = [clients EXCEPT ![cl] =
              CASE r.res = "err" ->
                      TaskExit([released EXCEPT !.wr_shutdown = TRUE], "error")
                [] r.res = "panic" -> TaskExit(released, "panic")
                [] OTHER -> [released EXCEPT !.pc = "frame"]]
    /\ UNCHANGED <<globals, steps, wire>>

NextTasks ==
    \E cl \in TaskNames :
        \/ TaskAccept(cl)
        \/ TaskReadable(cl)
        \/ TaskRecv(cl)
        \/ TaskEof(cl)
        \/ TaskWouldBlock(cl)
        \/ TaskIoError(cl)
        \/ TaskFrame(cl)
        \/ TaskLock(cl)
        \/ TaskDispatch(cl)

SpecTasks == Init /\ [][NextTasks]_vars

----------------------------------------------------------------------------
(* Client tasks with what they hold and wait for: the guard of the global
   state, the mutex of a mapping, a socket that cannot be written, and the
   descriptors they were passed. *)

\* What is kept next to the tasks:
\*   full         the clients whose socket cannot take another byte (the peer
\*                does not read)
\*   mmap_guards  the (client, mapping) pairs whose Mutex<MmapMut> is locked
\*   open         the (client, descriptor) pairs received by recv_with_fd and
\*                not closed
NoLocks == [full |-> {}, mmap_guards |-> {}, open |-> {}]

InitLocks ==
    /\ clients = <<>>
    /\ globals = DefaultGlobals
    /\ steps = 0
    /\ wire = NoLocks

\* What a read brings here: sync(2) alone, a descriptor with no request for
\* it, and in one piece get_registry(2), the bind of wl_shm as 3,
\* create_pool(4, 64) with its descriptor and resize(4, 128).
LockReads ==
    { [bytes |-> WireFrame(1, 0, Le32(2)), fds |-> <<>>],
      [bytes |-> WireFrame(9, 6, <<>>), fds |-> <<8>>],
      [bytes |-> WireFrame(1, 1, Le32(2))
                   \o WireFrame(2, 0, BindArgs(1, Str_wl_shm, 1, 3))
                   \o WireFrame(3, 0, Le32(4) \o Le32(64))
                   \o WireFrame(4, 2, Le32(128)),
       fds |-> <<7>>] }

SeqRange(q) == {q[i] : i \in 1..Len(q)}

\* recv_with_fd returns Ok((data_read, fds_read)): bytes and descriptors are
\* queued; the descriptors are open in the server from now on
LockRecv(cl) ==
    /\ At(cl, "recv")
    /\ steps < MaxTaskReads
    /\ \E r \in LockReads :
          /\ clients' = [clients EXCEPT
                           ![cl] = [@ EXCEPT !.data = @ \o r.bytes,
                                             !.pending_fds = @ \o r.fds,
                                             !.sent = <<>>, !.dispatched = <<>>,
                                             !.pc = "frame"]]
          /\ wire' = [wire EXCEPT !.open = @ \cup {<<cl, fd>> : fd \in SeqRange(r.fds)}]
    /\ steps' = steps + 1
    /\ UNCHANGED globals

\* The frame in hand is a wl_shm_pool.resize whose argument can be read.
IsResize(c) ==
    /\ c.frame[1] \in DOMAIN c.object_registry
    /\ c.object_registry[c.frame[1]].kind = "ShmPool"
    /\ c.frame[2] = 2
    /\ SliceOk(c.frame[3], 0, 4)

\* The handler of the frame in hand calls send_message.
Writes(c) ==
    handle_message(c, c.frame[1], c.frame[2], c.frame[3], globals, DefaultEnv).c.sent
       # c.sent

\* The task is suspended in the writable().await or write_all().await of
\* send_message, inside handle_message.
WriteBlocked(cl) ==
    /\ At(cl, "dispatch")
    /\ cl \in wire.full
    /\ Writes(clients[cl])

\* What the task does when handle_message has returned `r`: the guards are
\* dropped with the call; Err shuts the stream down and returns.
AfterHandler(r) ==
    LET released == [r.c EXCEPT !.guard = FALSE]
    IN  CASE r.res = "err" -> TaskExit([released EXCEPT !.wr_shutdown = TRUE], "error")
          [] r.res = "panic" -> TaskExit(released, "panic")
          [] OTHER -> [released EXCEPT !.pc = "frame"]

\* handle_message for every request but resize, when its writes can be made
LockDispatch(cl) ==
    /\ ~WriteBlocked(cl)
    /\ At(cl, "dispatch")
    /\ ~IsResize(clients[cl])
    /\ TaskDispatch(cl)

\* mmap.lock().await in wl_shm_pool.resize returns the guard of the mapping
LockMmap(cl) ==
    /\ At(cl, "dispatch")
    /\ IsResize(clients[cl])
    /\ LET mmap == clients[cl].object_registry[clients[cl].frame[1]].mmap
       IN  /\ <<cl, mmap>> \notin wire.mmap_guards
           /\ wire' = [wire EXCEPT !.mmap_guards = @ \cup {<<cl, mmap>>}]
    /\ clients' = [clients EXCEPT ![cl].pc = "remap"]
    /\ UNCHANGED <<globals, steps>>

\* A remap after which the mutex of the mapping stays locked.
LockRemap_KeepsMmapLocked(cl) ==
    /\ At(cl, "remap")
    /\ \E env \in {e \in Envs : e.ub_transform = DefaultEnv.ub_transform} :
          LET c == clients[cl]
          IN  clients' = [clients EXCEPT ![cl] =
                 AfterHandler(handle_message(c, c.frame[1], c.frame[2], c.frame[3],
                                             globals, env))]
    /\ UNCHANGED <<globals, steps, wire>>

\* mmap.remap(..)? and the end of the arm and of handle_message: the guard of
\* the mapping and the guard of the global state are dropped, on Ok and on Err
LockRemap(cl) ==
    /\ At(cl, "remap")
    /\ \E env \in {e \in Envs : e.ub_transform = DefaultEnv.ub_transform} :
          LET c == clients[cl]
          IN  clients' = [clients EXCEPT ![cl] =
                 AfterHandler(handle_message(c, c.frame[1], c.frame[2], c.frame[3],
                                             globals, env))]
    /\ wire' = [wire EXCEPT !.mmap_guards = {g \in @ : g[1] # cl}]
    /\ UNCHANGED <<globals, steps>>

\* The peer does not read: the write of the handler finds the send buffer of
\* the socket full.
SendBufferFills(cl) ==
    /\ At(cl, "dispatch")
    /\ Writes(clients[cl])
    /\ cl \notin wire.full
    /\ wire' = [wire EXCEPT !.full = @ \cup {cl}]
    /\ UNCHANGED <<clients, globals, steps>>

\* The peer reads again.
PeerDrains(cl) ==
    /\ cl \in wire.full
    /\ wire' = [wire EXCEPT !.full = @ \ {cl}]
    /\ UNCHANGED <<clients, globals, steps>>

NextLocks ==
    \E cl \in TaskNames :
        \/ TaskAccept(cl)
        \/ TaskReadable(cl)
        \/ LockRecv(cl)
        \/ TaskEof(cl)
        \/ TaskFrame(cl)
        \/ TaskLock(cl)
        \/ LockDispatch(cl)
        \/ LockMmap(cl)
        \/ LockRemap(cl)
        \/ SendBufferFills(cl)
        \/ PeerDrains(cl)

SpecLocks == InitLocks /\ [][NextLocks]_vars

\* The executor runs every task that can go on: a task that is not suspended
\* takes its next step, and a task that waits for its socket is woken when
\* the socket can be written. Nothing is assumed of the peers.
SpecLocksFair ==
    /\ SpecLocks
    /\ \A cl \in TaskNames :
          /\ WF_vars(TaskFrame(cl) \/ TaskLock(cl) \/ LockMmap(cl) \/ LockRemap(cl))
          /\ SF_vars(LockDispatch(cl))

----------------------------------------------------------------------------
(* The argument area of wl_registry.bind, written by a client and decoded by
   the server. *)

\* The bytes of the interface strings: two ASCII letters.
CodecAlphabet == {97, 122}

CodecStrings == UNION {[1..n -> CodecAlphabet] : n \in 0..MaxStringLen}

\* (name, version, new_id): small values, and the ends of the 32-bit range
\* in the two's complement the model keeps words in.
CodecWords ==
    {<<1, 1, 3>>, <<0, 0, 0>>, <<-1, 2147483647, -2147483647>>, <<65536, 255, 256>>}

InitCodec ==
    /\ clients = <<>>
    /\ globals = DefaultGlobals
    /\ steps = 0
    /\ wire \in {[stage |-> "input", name |-> w[1], interface |-> s,
                  version |-> w[2], new_id |-> w[3],
                  bytes |-> <<>>, decoded |-> [ok |-> FALSE]] :
                    w \in CodecWords, s \in CodecStrings}

\* The client lays the arguments out: name, string, version, new_id.
CodecEncode ==
    /\ wire.stage = "input"
    /\ wire' = [wire EXCEPT
                  !.stage = "encoded",
                  !.bytes = BindArgs(wire.name, wire.interface, wire.version,
                                     wire.new_id)]
    /\ UNCHANGED <<clients, globals, steps>>

\* The Registry arm decodes them.
CodecDecode ==
    /\ wire.stage = "encoded"
    /\ wire' = [wire EXCEPT !.stage = "decoded", !.decoded = DecodeBind(wire.bytes)]
    /\ UNCHANGED <<clients, globals, steps>>

NextCodec ==
    \/ CodecEncode
    \/ CodecDecode

SpecCodec == InitCodec /\ [][NextCodec]_vars

----------------------------------------------------------------------------
(* Vocabulary of the properties. *)

\* The messages handle_message was called with in this step, in order: those
\* of the read the step handled, none when the step is no read.
DispatchedNow(cl) ==
    IF /\ cl \in DOMAIN clients
       /\ cl \in DOMAIN clients'
       /\ clients'[cl].n_dispatched > clients[cl].n_dispatched
    THEN clients'[cl].dispatched
    ELSE <<>>

StillRunning(cl) == clients'[cl].status = "running"

Reg(cl) == clients[cl].object_registry
RegAfter(cl) == clients'[cl].object_registry

IsSurface(reg, id) == id \in DOMAIN reg /\ reg[id].kind = "WlSurface"

CurrentSlots(s) ==
    <<s.current_buffer, s.current_surface_damage, s.current_buffer_damage,
      s.current_opaque_region, s.current_input_region, s.current_transform,
      s.current_scale, s.current_offset>>

PendingSlots(s) ==
    <<s.pending_buffer, s.pending_surface_damage, s.pending_buffer_damage,
      s.pending_opaque_region, s.pending_input_region, s.pending_transform,
      s.pending_scale, s.pending_offset>>

\* The step handled wl_surface.commit (opcode 6) on the surface bound to id.
CommitOn(cl, id) ==
    /\ Running(cl)
    /\ IsSurface(Reg(cl), id)
    /\ Len(DispatchedNow(cl)) = 1
    /\ DispatchedNow(cl)[1][1] = id
    /\ DispatchedNow(cl)[1][2] = 6

\* The ids a message asks to create, by the interface of its target: the
\* new_id argument of sync, get_registry, a bind of an advertised name,
\* create_pool, create_buffer, create_surface, create_region and frame.
NewIds(reg, m) ==
    IF m[1] \notin DOMAIN reg THEN {}
    ELSE
    LET kind == reg[m[1]].kind
        op == m[2]
        first == IF SliceOk(m[3], 0, 4) THEN {WordAt(m[3], 0)} ELSE {}
    IN  CASE kind = "Display" /\ op \in {0, 1} -> first
          [] kind = "Registry" /\ op = 0 ->
                LET d == DecodeBind(m[3])
                IN  IF d.ok /\ \E i \in 1..Len(globals) : globals[i].name = d.name
                    THEN {d.new_id} ELSE {}
          [] kind = "Shm" /\ op = 0 -> first
          [] kind = "ShmPool" /\ op = 0 -> first
          [] kind = "WlCompositor" /\ op \in {0, 1} -> first
          [] kind = "WlSurface" /\ op = 3 -> first
          [] OTHER -> {}

\* The id a message asks to destroy: wl_shm.release, wl_shm_pool.destroy,
\* wl_buffer.destroy, wl_surface.destroy.
DestroyedIds(reg, m) ==
    IF m[1] \notin DOMAIN reg THEN {}
    ELSE
    LET kind == reg[m[1]].kind
        op == m[2]
    IN  IF \/ kind = "Shm" /\ op = 1
           \/ kind = "ShmPool" /\ op = 1
           \/ kind = "Buffer" /\ op = 0
           \/ kind = "WlSurface" /\ op = 0
        THEN {m[1]} ELSE {}

\* The callback.done(0) event on an id, as it appears on the socket.
DoneEvent(id) == Le32(id) \o <<0, 0, 12, 0, 0, 0, 0, 0>>

----------------------------------------------------------------------------
(* Properties. *)

\* C1: after a wl_surface.commit every current slot of the surface holds the
\* value its pending slot had just before the commit, and the two pending
\* damage lists are empty.
C1_CommitMovesPendingToCurrent ==
    [][\A cl \in DOMAIN clients : \A id \in DOMAIN Reg(cl) :
          (CommitOn(cl, id) /\ StillRunning(cl)) =>
             /\ IsSurface(RegAfter(cl), id)
             /\ CurrentSlots(RegAfter(cl)[id]) = PendingSlots(Reg(cl)[id])
             /\ RegAfter(cl)[id].pending_surface_damage = <<>>
             /\ RegAfter(cl)[id].pending_buffer_damage = <<>>]_vars

\* C1 witness: a commit has just moved an attached buffer, a damage
\* rectangle and a scale into the current slots.
C1_Witness ==
    \E cl \in DOMAIN clients :
        LET c == clients[cl]
        IN  /\ c.status = "running"
            /\ Len(c.dispatched) = 1 /\ c.dispatched[1][2] = 6
            /\ IsSurface(c.object_registry, c.dispatched[1][1])
            /\ LET s == c.object_registry[c.dispatched[1][1]]
               IN  /\ s.current_buffer = Some(9)
                   /\ s.current_surface_damage = << <<0, 0, 10, 10>> >>
                   /\ s.pending_buffer = None
                   /\ s.pending_surface_damage = <<>>

\* C2: the current slots of a surface change only in a commit on that
\* surface: a step that handles no commit on it (a single other request on
\* it or on another object, or no request at all) and after which the id
\* still names the same surface object leaves every current slot unchanged.
C2_CurrentChangesOnlyAtCommit ==
    [][\A cl \in DOMAIN clients : \A id \in DOMAIN Reg(cl) :
          (/\ Running(cl) /\ StillRunning(cl)
           /\ IsSurface(Reg(cl), id) /\ IsSurface(RegAfter(cl), id)
           /\ Len(DispatchedNow(cl)) <= 1
           /\ ~CommitOn(cl, id)
           /\ \A i \in 1..Len(DispatchedNow(cl)) :
                 id \notin NewIds(Reg(cl), DispatchedNow(cl)[i]))
          => CurrentSlots(RegAfter(cl)[id]) = CurrentSlots(Reg(cl)[id])]_vars

\* C2 witness: attach(9), commit, then a damage that is not committed: the
\* damage is pending and the current slots are those of the commit.
C2_Witness ==
    \E cl \in DOMAIN clients :
        LET c == clients[cl]
        IN  /\ c.status = "running"
            /\ Len(c.dispatched) = 1 /\ c.dispatched[1][2] = 2
            /\ IsSurface(c.object_registry, c.dispatched[1][1])
            /\ LET s == c.object_registry[c.dispatched[1][1]]
               IN  /\ s.current_buffer = Some(9)
                   /\ s.current_surface_damage = <<>>
                   /\ s.pending_surface_damage = << <<5, 5, 1, 1>> >>

\* C3: the callbacks of a surface are completed by its next commit, once
\* each and in the order of the frame requests. A frame request appends its
\* new id to the surface's list and writes nothing; no other request changes
\* the list; a commit handled while the socket is writable writes exactly
\* one callback.done(0) per id of the list, in list order, and empties the
\* list, so that no later commit completes the same request again.
C3_FrameCallbacksDoneAtNextCommit ==
    [][\A cl \in DOMAIN clients : \A id \in DOMAIN Reg(cl) :
          (/\ Running(cl)
           /\ IsSurface(Reg(cl), id)
           /\ Len(DispatchedNow(cl)) = 1)
          =>
          LET m == DispatchedNow(cl)[1]
              list == Reg(cl)[id].frame_callbacks
              same == /\ StillRunning(cl)
                      /\ IsSurface(RegAfter(cl), id)
                      /\ id \notin NewIds(Reg(cl), m)
          IN  /\ (m[1] = id /\ m[2] = 6 /\ clients[cl].peer_open) =>
                    /\ StillRunning(cl)
                    /\ clients'[cl].sent = [i \in 1..Len(list) |-> DoneEvent(list[i])]
                    /\ RegAfter(cl)[id].frame_callbacks = <<>>
              /\ (m[1] = id /\ m[2] = 3 /\ same) =>
                    /\ RegAfter(cl)[id].frame_callbacks =
                          Append(list, WordAt(m[3], 0))
                    /\ clients'[cl].sent = <<>>
              /\ (~(m[1] = id /\ m[2] \in {3, 6}) /\ same) =>
                    /\ RegAfter(cl)[id].frame_callbacks = list
                    /\ clients'[cl].sent = <<>>]_vars

\* C3 witness: frame(100), frame(101), commit has written done on 100 and
\* then done on 101.
C3_Witness ==
    \E cl \in DOMAIN clients :
        LET c == clients[cl]
        IN  /\ c.status = "running"
            /\ Len(c.dispatched) = 1 /\ c.dispatched[1][2] = 6
            /\ c.sent = <<DoneEvent(100), DoneEvent(101)>>

\* The step handled a commit on the surface bound to id, and the read before
\* it had brought a commit on the same id and nothing else.
SecondCommitOn(cl, id) ==
    /\ CommitOn(cl, id)
    /\ Len(clients[cl].dispatched) = 1
    /\ clients[cl].dispatched[1][1] = id
    /\ clients[cl].dispatched[1][2] = 6

\* C4 as stated: of two successive commits on a surface, the second leaves
\* every current slot as the first left it.
C4_SecondCommitChangesNothing ==
    [][\A cl \in DOMAIN clients : \A id \in DOMAIN Reg(cl) :
          (SecondCommitOn(cl, id) /\ StillRunning(cl)) =>
             CurrentSlots(RegAfter(cl)[id]) = CurrentSlots(Reg(cl)[id])]_vars

\* C4 as amended: of two successive commits on a surface, the second leaves
\* the current transform, scale and offset as the first left them, and it
\* sets the current buffer and regions to None and the current damage lists
\* to empty, which is what the first commit left in the pending slots.
C4_SecondCommitKeepsCopiedSlots ==
    [][\A cl \in DOMAIN clients : \A id \in DOMAIN Reg(cl) :
          (SecondCommitOn(cl, id) /\ StillRunning(cl)) =>
             LET before == Reg(cl)[id]
                 after == RegAfter(cl)[id]
             IN  /\ after.current_transform = before.current_transform
                 /\ after.current_scale = before.current_scale
                 /\ after.current_offset = before.current_offset
                 /\ after.current_buffer = None
                 /\ after.current_opaque_region = None
                 /\ after.current_input_region = None
                 /\ after.current_surface_damage = <<>>
                 /\ after.current_buffer_damage = <<>>]_vars

\* C4 witness: set_buffer_scale(2), commit, commit: the scale is still
\* current after the second commit.
C4_Witness ==
    \E cl \in DOMAIN clients :
        LET c == clients[cl]
        IN  /\ c.status = "running"
            /\ c.repeated
            /\ Len(c.dispatched) = 1 /\ c.dispatched[1][2] = 6
            /\ IsSurface(c.object_registry, c.dispatched[1][1])
            /\ c.object_registry[c.dispatched[1][1]].current_scale = 2

\* The step is one read of a running client that brought exactly one message.
OneMessage(cl) == Running(cl) /\ Len(DispatchedNow(cl)) = 1

\* C5: the ids bound for a client are 1, plus the ids created through new_id
\* arguments, minus the ids destroyed: a connection starts with {1}; a valid
\* request (its new_id is not bound) that leaves the connection running adds
\* exactly its new_id and removes exactly the id it destroys; nothing else
\* changes the set while the connection runs.
C5_RegistryIsCreatedMinusDestroyed ==
    [][\A cl \in DOMAIN clients' :
          /\ cl \notin DOMAIN clients => DOMAIN RegAfter(cl) = {1}
          /\ (cl \in DOMAIN clients /\ Running(cl) /\ StillRunning(cl)) =>
                IF Len(DispatchedNow(cl)) = 1
                THEN LET m == DispatchedNow(cl)[1]
                     IN  NewIds(Reg(cl), m) \cap DOMAIN Reg(cl) = {} =>
                            DOMAIN RegAfter(cl) =
                               (DOMAIN Reg(cl) \cup NewIds(Reg(cl), m))
                                  \ DestroyedIds(Reg(cl), m)
                ELSE DOMAIN RegAfter(cl) = DOMAIN Reg(cl)]_vars

\* C5 witness: registry 2, global 3, pool 4 and buffer 5 were created and
\* the buffer has just been destroyed.
C5_Witness ==
    \E cl \in DOMAIN clients :
        LET c == clients[cl]
        IN  /\ c.status = "running"
            /\ c.dispatched = << <<5, 0, <<>> >> >>
            /\ DOMAIN c.object_registry = {1, 2, 3, 4}
            /\ c.object_registry[4].kind = "ShmPool"

\* The script items whose frame lies entirely in the first pos bytes.
CompleteItems(script, pos) ==
    Cardinality({i \in 1..Len(script) :
                    ItemOffset(script, i) + Len(script[i].frame) <= pos})

\* What handle_message is to be called with for a frame.
Tuple(frame) ==
    <<WordAt(frame, 0), U16FromLe(frame[5], frame[6]), SubSeq(frame, 9, Len(frame))>>

\* C6: however the byte stream of a script is split into reads, after the
\* first pos bytes have been read handle_message has been called once for
\* each frame that lies entirely in those bytes, in order and with the
\* frame's object id, opcode and arguments, and the bytes of the frame that
\* is not complete yet are kept in the queue.
C6_FramingIndependentOfSplits ==
    \A cl \in DOMAIN clients :
        LET c == clients[cl]
            script == wire.script
            n == CompleteItems(script, wire.pos)
            k == Len(c.dispatched)
        IN  c.status = "running" =>
               /\ c.n_dispatched = n
               /\ k <= n
               /\ c.dispatched = [i \in 1..k |-> Tuple(script[n - k + i].frame)]
               /\ c.data = SubSeq(StreamBytes(script),
                                  (IF n = 0 THEN 0
                                   ELSE ItemOffset(script, n) + Len(script[n].frame)) + 1,
                                  wire.pos)

\* C6 witness: a read ended inside the header of the fourth frame, after it
\* completed an earlier frame.
C6_Witness ==
    \E cl \in DOMAIN clients :
        LET c == clients[cl]
        IN  /\ c.status = "running"
            /\ Len(c.data) \in 1..7
            /\ c.n_dispatched = 3
            /\ c.dispatched # <<>>

\* The requests that need a descriptor among the first n of a script
\* (wl_shm is bound to 3 by the head of every script), in order.
FdRequests(script, n) ==
    SelectSeq([i \in 1..n |-> i],
              LAMBDA i : Tuple(script[i].frame)[1] = 3 /\ Tuple(script[i].frame)[2] = 0)

\* C7: descriptors are used in the order they arrive: the k-th create_pool
\* handled has taken the k-th descriptor received, and the queue holds the
\* descriptors received and not taken by a create_pool, in arrival order,
\* for every split of the bytes and descriptors into reads.
C7_FdsConsumedInArrivalOrder ==
    \A cl \in DOMAIN clients :
        LET c == clients[cl]
            script == wire.script
            arrived == FdsWithBytes(script, 0, wire.pos)
            reqs == FdRequests(script, c.n_dispatched)
            new_id(k) == WordAt(Tuple(script[reqs[k]].frame)[3], 0)
        IN  c.status = "running" =>
               /\ Len(reqs) <= Len(arrived)
               /\ c.pending_fds = SubSeq(arrived, Len(reqs) + 1, Len(arrived))
               /\ \A k \in 1..Len(reqs) :
                     (\A j \in (k + 1)..Len(reqs) : new_id(j) # new_id(k)) =>
                        /\ new_id(k) \in DOMAIN c.object_registry
                        /\ c.object_registry[new_id(k)].kind = "ShmPool"
                        /\ c.object_registry[new_id(k)].fd = arrived[k]

\* C7 witness: create_pool(5) came with descriptors 8 and 6 and took 8; the
\* create_pool(4) after it took the surplus 6, and its own descriptor 7 is
\* queued.
C7_Witness ==
    \E cl \in DOMAIN clients :
        LET c == clients[cl]
        IN  /\ c.status = "running"
            /\ 4 \in DOMAIN c.object_registry /\ 5 \in DOMAIN c.object_registry
            /\ c.object_registry[5].kind = "ShmPool" /\ c.object_registry[5].fd = 8
            /\ c.object_registry[4].kind = "ShmPool" /\ c.object_registry[4].fd = 6
            /\ c.pending_fds = <<7>>

\* C8: a request whose new_id names an id that is already bound ends the
\* connection with an error and leaves the binding as it was.
C8_BoundNewIdIsFatal ==
    [][\A cl \in DOMAIN clients :
          (/\ OneMessage(cl)
           /\ NewIds(Reg(cl), DispatchedNow(cl)[1]) \cap DOMAIN Reg(cl) # {})
          => /\ clients'[cl].status = "exited"
             /\ clients'[cl].exit = "error"]_vars

\* C9: while a connection runs, id 1 is bound and is the display.
C9_IdOneIsTheDisplay ==
    \A cl \in DOMAIN clients :
        clients[cl].status = "running" =>
           /\ 1 \in DOMAIN clients[cl].object_registry
           /\ clients[cl].object_registry[1].kind = "Display"

\* C10: a set_buffer_transform with a value outside 0..7 is never stored:
\* both transform slots of every surface hold one of the values 0..7.
C10_TransformSlotsInRange ==
    \A cl \in DOMAIN clients : \A id \in DOMAIN clients[cl].object_registry :
        IsSurface(clients[cl].object_registry, id) =>
           /\ clients[cl].object_registry[id].pending_transform \in WlOutputTransform
           /\ clients[cl].object_registry[id].current_transform \in WlOutputTransform

\* The descriptors received with the first pos bytes of the script.
Arrived == FdsWithBytes(wire.script, 0, wire.pos)

\* The last request handed to handle_message was a create_pool that found
\* the descriptor queue empty: more create_pool requests were dispatched
\* than descriptors had been received.
FailedForLackOfFd(c) ==
    Len(FdRequests(wire.script, c.n_dispatched)) > Len(Arrived)

\* C11: after a handler returned an error no later request of the client is
\* dispatched, even when complete frames were read together with the failing
\* one: a client that dispatched a request that fails is not running, it
\* stopped at that request, shut the write half down and dropped its
\* registry, queue and descriptors, in every state from then on.
C11_NothingDispatchedAfterError ==
    \A cl \in DOMAIN clients :
        LET c == clients[cl]
            failed == FailedForLackOfFd(c)
        IN  /\ failed =>
                  /\ c.status = "exited" /\ c.exit = "error"
                  /\ c.n_dispatched <= CompleteItems(wire.script, wire.pos)
                  /\ c.dispatched # <<>>
                  /\ c.dispatched[Len(c.dispatched)] =
                        Tuple(wire.script[c.n_dispatched].frame)
                  /\ Len(FdRequests(wire.script, c.n_dispatched - 1)) <= Len(Arrived)
            /\ (c.status = "exited" /\ c.exit = "error") =>
                  /\ failed
                  /\ c.wr_shutdown
                  /\ c.object_registry = <<>>
                  /\ c.data = <<>> /\ c.pending_fds = <<>>

\* C11 witness: the client exited on a create_pool without descriptor while
\* a complete frame read with it was still queued behind it.
C11_Witness ==
    \E cl \in DOMAIN clients :
        LET c == clients[cl]
        IN  /\ c.status = "exited" /\ c.exit = "error"
            /\ FailedForLackOfFd(c)
            /\ c.n_dispatched < CompleteItems(wire.script, wire.pos)

\* C12: a client that exited on a handler's error while its socket was
\* writable was sent a display.error event (target 1, opcode 0) as the last
\* event before the exit.
C12_ErrorEventBeforeExit ==
    \A cl \in DOMAIN clients :
        LET c == clients[cl]
        IN  (c.status = "exited" /\ c.exit = "error" /\ c.peer_open) =>
               /\ c.sent # <<>>
               /\ LET last == c.sent[Len(c.sent)]
                  IN  WordAt(last, 0) = 1 /\ U16FromLe(last[5], last[6]) = 0

\* C13: a malformed frame ends the connection through the error path and
\* never by a panic of the client task.
C13_MalformedFrameNeverPanics ==
    \A cl \in DOMAIN clients : clients[cl].exit # "panic"

\* The step left the objects, the mappings and the connection of the client
\* as they were, took no descriptor from the queue and wrote no event.
Ignored(cl) ==
    /\ StillRunning(cl)
    /\ RegAfter(cl) = Reg(cl)
    /\ clients'[cl].mmaps = clients[cl].mmaps
    /\ clients'[cl].sent = <<>>
    /\ Len(clients'[cl].pending_fds) >= Len(clients[cl].pending_fds)
    /\ SubSeq(clients'[cl].pending_fds, 1, Len(clients[cl].pending_fds))
          = clients[cl].pending_fds
    /\ clients'[cl].wr_shutdown = clients[cl].wr_shutdown

\* C14: a request on an id that is not bound is skipped: no object changes,
\* no descriptor is taken, no event is written, and the connection stays
\* open for the requests that follow.
C14_UnknownIdIsSkipped ==
    [][\A cl \in DOMAIN clients :
          (OneMessage(cl) /\ DispatchedNow(cl)[1][1] \notin DOMAIN Reg(cl))
          => Ignored(cl)]_vars

\* C14 witness: a create_pool sent to an id that is not bound, with a
\* descriptor, was skipped: the descriptor is queued, no pool exists and the
\* connection runs.
C14_Witness ==
    \E cl \in DOMAIN clients :
        LET c == clients[cl]
        IN  /\ c.status = "running"
            /\ c.n_dispatched = 1
            /\ c.dispatched = << <<3, 0, Le32(4) \o Le32(64)>> >>
            /\ DOMAIN c.object_registry = {1}
            /\ c.pending_fds = <<7>>

\* The opcodes an interface implements.
OpCodesOf(kind) ==
    CASE kind = "Display" -> {0, 1}
      [] kind = "Registry" -> {0}
      [] kind = "Shm" -> {0, 1}
      [] kind = "ShmPool" -> {0, 1, 2}
      [] kind = "Buffer" -> {0}
      [] kind = "WlCompositor" -> {0, 1}
      [] kind = "WlSurface" -> 0..10
      [] OTHER -> {}

\* C15: a request with an opcode its target's interface does not implement,
\* and every request on a Callback, a Region or an XdgWmBase, is ignored:
\* registry, surfaces and descriptor queue are unchanged, no event is
\* written and the connection stays open.
C15_UnknownOpcodeIsIgnored ==
    [][\A cl \in DOMAIN clients :
          (/\ OneMessage(cl)
           /\ DispatchedNow(cl)[1][1] \in DOMAIN Reg(cl)
           /\ DispatchedNow(cl)[1][2] \notin
                 OpCodesOf(Reg(cl)[DispatchedNow(cl)[1][1]].kind))
          => Ignored(cl)]_vars

\* C15 witness: a commit (opcode 6) sent to a pool was ignored: the pool and
\* its mapping are as they were.
C15_Witness ==
    \E cl \in DOMAIN clients :
        LET c == clients[cl]
        IN  /\ c.status = "running"
            /\ c.dispatched = << <<4, 6, <<>> >> >>
            /\ 4 \in DOMAIN c.object_registry
            /\ c.object_registry[4].kind = "ShmPool"
            /\ c.sent = <<>>

\* C16: a create_pool handled while the descriptor queue is empty is fatal:
\* when the last request dispatched is a create_pool and more create_pool
\* requests were dispatched than descriptors received, the connection has
\* ended with an error and no pool is bound under the request's new_id.
C16_CreatePoolWithoutFdIsFatal ==
    \A cl \in DOMAIN clients :
        LET c == clients[cl]
            n == c.n_dispatched
        IN  (/\ n >= 1
             /\ Tuple(wire.script[n].frame)[1] = 3
             /\ Tuple(wire.script[n].frame)[2] = 0
             /\ FailedForLackOfFd(c))
            => /\ c.status = "exited" /\ c.exit = "error"
               /\ WordAt(Tuple(wire.script[n].frame)[3], 0) \notin DOMAIN c.object_registry
               /\ c.mmaps = <<>>

\* C16 witness: no descriptor was ever received and the create_pool(4) just
\* dispatched ended the connection.
C16_Witness ==
    \E cl \in DOMAIN clients :
        LET c == clients[cl]
        IN  /\ c.status = "exited" /\ c.exit = "error"
            /\ Arrived = <<>>
            /\ c.dispatched # <<>>
            /\ c.dispatched[Len(c.dispatched)] = <<3, 0, Le32(4) \o Le32(64)>>

\* The step is one read that brought one request with opcode op to an object
\* of the given kind.
RequestOn(cl, kind, op) ==
    /\ OneMessage(cl)
    /\ DispatchedNow(cl)[1][1] \in DOMAIN Reg(cl)
    /\ Reg(cl)[DispatchedNow(cl)[1][1]].kind = kind
    /\ DispatchedNow(cl)[1][2] = op

\* C17: a create_pool of size 0 is fatal to the connection, whatever the
\* descriptor.
C17_CreatePoolOfSizeZeroIsFatal ==
    [][\A cl \in DOMAIN clients :
          (/\ RequestOn(cl, "Shm", 0)
           /\ SliceOk(DispatchedNow(cl)[1][3], 4, 8)
           /\ WordAt(DispatchedNow(cl)[1][3], 4) = 0)
          => /\ clients'[cl].status = "exited"
             /\ clients'[cl].exit = "error"]_vars

\* The interface strings of the globals table.
GlobalInterfaces == {as_str(globals[i].interface) : i \in 1..Len(globals)}

\* C18: a bind whose interface string is the interface of no global is a
\* no-op: nothing is bound, nothing is written, the connection stays open.
C18_BindOfUnknownInterfaceIsNoOp ==
    [][\A cl \in DOMAIN clients :
          (/\ RequestOn(cl, "Registry", 0)
           /\ DecodeBind(DispatchedNow(cl)[1][3]).ok
           /\ DecodeBind(DispatchedNow(cl)[1][3]).interface \notin GlobalInterfaces)
          => Ignored(cl)]_vars

\* The registry.global event on registry id n, as it appears on the socket.
GlobalEvent(n, name, interface, version) ==
    Le32(n) \o Le16(0)
       \o Le16(8 + 4 + Len(get_string_bytes(interface)) + 4)
       \o Le32(name) \o get_string_bytes(interface) \o Le32(version)

\* C19: get_registry(new_id), on a socket that takes the writes, binds a
\* Registry under new_id and writes exactly the three global events of the
\* default table, on new_id and in table order: (1, "wl_shm", 1),
\* (2, "wl_compositor", 6), (3, "xdg_wm_base", 7).
C19_GetRegistryAnnouncesGlobals ==
    [][\A cl \in DOMAIN clients :
          (/\ RequestOn(cl, "Display", 1)
           /\ SliceOk(DispatchedNow(cl)[1][3], 0, 4)
           /\ clients[cl].peer_open)
          => LET new_id == WordAt(DispatchedNow(cl)[1][3], 0)
             IN  /\ StillRunning(cl)
                 /\ new_id \in DOMAIN RegAfter(cl)
                 /\ RegAfter(cl)[new_id] = Registry
                 /\ DOMAIN RegAfter(cl) = DOMAIN Reg(cl) \cup {new_id}
                 /\ clients'[cl].sent =
                       << GlobalEvent(new_id, 1, Str_wl_shm, 1),
                          GlobalEvent(new_id, 2, Str_wl_compositor, 6),
                          GlobalEvent(new_id, 3, Str_xdg_wm_base, 7) >>]_vars

\* C19 witness: get_registry(2) was just handled and the first event written
\* is registry(2).global(1, "wl_shm", 1).
C19_Witness ==
    \E cl \in DOMAIN clients :
        LET c == clients[cl]
        IN  /\ c.status = "running"
            /\ c.dispatched = << <<1, 1, <<2, 0, 0, 0>> >> >>
            /\ c.object_registry[2].kind = "Registry"
            /\ Len(c.sent) = 3
            /\ c.sent[1] = <<2, 0, 0, 0, 0, 0, 28, 0, 1, 0, 0, 0, 7, 0, 0, 0,
                             119, 108, 95, 115, 104, 109, 0, 0, 1, 0, 0, 0>>

\* The shm.format event on id n with the four bytes of the format.
FormatEvent(n, format_bytes) == Le32(n) \o <<0, 0, 12, 0>> \o format_bytes

\* C20: binding the wl_shm global (name 1) under new_id, on a socket that
\* takes the writes, writes exactly format(0) and then format(0x34324752) on
\* new_id and leaves new_id bound to an Shm; binding the wl_compositor or
\* the xdg_wm_base global (names 2, 3) writes nothing.
C20_BindShmAnnouncesFormats ==
    [][\A cl \in DOMAIN clients :
          (/\ RequestOn(cl, "Registry", 0)
           /\ DecodeBind(DispatchedNow(cl)[1][3]).ok
           /\ clients[cl].peer_open)
          => LET d == DecodeBind(DispatchedNow(cl)[1][3])
             IN  /\ d.name = 1 =>
                       /\ StillRunning(cl)
                       /\ clients'[cl].sent =
                             << FormatEvent(d.new_id, <<0, 0, 0, 0>>),
                                FormatEvent(d.new_id, <<82, 71, 50, 52>>) >>
                       /\ RegAfter(cl)[d.new_id] = Shm
                 /\ d.name \in {2, 3} =>
                       /\ StillRunning(cl)
                       /\ clients'[cl].sent = <<>>
                       /\ RegAfter(cl)[d.new_id] =
                             (IF d.name = 2 THEN WlCompositor ELSE XdgWmBase)]_vars

\* C20 witness: wl_shm was just bound as 3 and the two format events were
\* written on 3.
C20_Witness ==
    \E cl \in DOMAIN clients :
        LET c == clients[cl]
        IN  /\ c.status = "running"
            /\ Len(c.dispatched) = 1
            /\ c.dispatched[1][1] = 2 /\ c.dispatched[1][2] = 0
            /\ 3 \in DOMAIN c.object_registry
            /\ c.object_registry[3].kind = "Shm"
            /\ c.sent = << <<3, 0, 0, 0, 0, 0, 12, 0, 0, 0, 0, 0>>,
                           <<3, 0, 0, 0, 0, 0, 12, 0, 82, 71, 50, 52>> >>

\* C21: sync(new_id), on a socket that takes the writes, binds a Callback
\* under new_id and writes exactly one event, callback.done(0) on new_id.
C21_SyncCompletesItsCallback ==
    [][\A cl \in DOMAIN clients :
          (/\ RequestOn(cl, "Display", 0)
           /\ SliceOk(DispatchedNow(cl)[1][3], 0, 4)
           /\ clients[cl].peer_open)
          => LET new_id == WordAt(DispatchedNow(cl)[1][3], 0)
             IN  /\ StillRunning(cl)
                 /\ new_id \in DOMAIN RegAfter(cl)
                 /\ RegAfter(cl)[new_id] = Callback
                 /\ DOMAIN RegAfter(cl) = DOMAIN Reg(cl) \cup {new_id}
                 /\ clients'[cl].sent = <<DoneEvent(new_id)>>]_vars

\* C21 witness: sync(5) was just handled and callback.done(0) was written
\* on 5.
C21_Witness ==
    \E cl \in DOMAIN clients :
        LET c == clients[cl]
        IN  /\ c.status = "running"
            /\ c.dispatched = << <<1, 0, <<5, 0, 0, 0>> >> >>
            /\ 5 \in DOMAIN c.object_registry
            /\ c.object_registry[5].kind = "Callback"
            /\ c.sent = << <<5, 0, 0, 0, 0, 0, 12, 0, 0, 0, 0, 0>> >>

\* The callback ids on which callback.done was written in this step: the
\* targets of the events of a sync or of a commit.
CompletedNow(cl) ==
    IF RequestOn(cl, "Display", 0) \/ RequestOn(cl, "WlSurface", 6)
    THEN {WordAt(clients'[cl].sent[i], 0) : i \in 1..Len(clients'[cl].sent)}
    ELSE {}

\* C22: a callback is gone once its done event is written: after the step
\* that wrote callback.done on an id, the id is not bound.
C22_CallbackUnboundAfterDone ==
    [][\A cl \in DOMAIN clients :
          (Running(cl) /\ StillRunning(cl)) =>
             \A id \in CompletedNow(cl) : id \notin DOMAIN RegAfter(cl)]_vars

\* The bytes a buffer describes lie inside the mapping it holds.
BufferInsideMapping(c, b) ==
    /\ b.offset >= 0 /\ b.stride >= 0 /\ b.height >= 0
    /\ b.shm_pool \in DOMAIN c.mmaps
    /\ b.offset + b.stride * b.height <= c.mmaps[b.shm_pool].len

\* C23: every bound buffer describes bytes inside the current length of its
\* mapping.
C23_BuffersInsideTheirMapping ==
    \A cl \in DOMAIN clients :
        LET c == clients[cl]
        IN  \A id \in DOMAIN c.object_registry :
               c.object_registry[id].kind = "Buffer" =>
                  BufferInsideMapping(c, c.object_registry[id])

\* C24: a mapping exists exactly as long as a bound pool or a bound buffer
\* holds it: it outlives its pool while a buffer made from it is bound, and
\* it is released with its last holder and with the connection.
C24_MappingLivesWithItsHolders ==
    \A cl \in DOMAIN clients :
        LET c == clients[cl]
        IN  /\ DOMAIN c.mmaps = HeldMmaps(c.object_registry)
            /\ c.status = "exited" => c.mmaps = <<>>

\* C24 witness: the pool was just destroyed and buffer 5, made from it,
\* still holds the mapping.
C24_Witness ==
    \E cl \in DOMAIN clients :
        LET c == clients[cl]
        IN  /\ c.status = "running"
            /\ c.dispatched = << <<4, 1, <<>> >> >>
            /\ 4 \notin DOMAIN c.object_registry
            /\ 5 \in DOMAIN c.object_registry
            /\ c.object_registry[5].kind = "Buffer"
            /\ c.object_registry[5].shm_pool \in DOMAIN c.mmaps

\* C25: a resize either gives the pool's mapping the new length in place
\* (pool and buffers hold the same mapping as before) and succeeds, or ends
\* the connection with an error.
C25_ResizeInPlaceOrFatal ==
    [][\A cl \in DOMAIN clients :
          (/\ RequestOn(cl, "ShmPool", 2)
           /\ SliceOk(DispatchedNow(cl)[1][3], 0, 4))
          => LET id == DispatchedNow(cl)[1][1]
                 new_size == WordAt(DispatchedNow(cl)[1][3], 0)
                 mmap == Reg(cl)[id].mmap
             IN  \/ /\ StillRunning(cl)
                    /\ RegAfter(cl) = Reg(cl)
                    /\ DOMAIN clients'[cl].mmaps = DOMAIN clients[cl].mmaps
                    /\ clients'[cl].mmaps[mmap].len = new_size
                 \/ /\ clients'[cl].status = "exited"
                    /\ clients'[cl].exit = "error"]_vars

\* C25 witness: resize(128) on pool 4 was just handled and the mapping of
\* the pool is 128 bytes long.
C25_Witness ==
    \E cl \in DOMAIN clients :
        LET c == clients[cl]
        IN  /\ c.status = "running"
            /\ c.dispatched = << <<4, 2, <<128, 0, 0, 0>> >> >>
            /\ 4 \in DOMAIN c.object_registry
            /\ c.object_registry[4].kind = "ShmPool"
            /\ c.mmaps[c.object_registry[4].mmap].len = 128

\* The events a request of a script causes, in the order its handler writes
\* them (in a script 1 is the display and 2 the registry): the globals for
\* get_registry, the formats for a bind of wl_shm, done for sync.
EventsOf(m) ==
    CASE m[1] = 1 /\ m[2] = 1 ->
            LET n == WordAt(m[3], 0)
            IN  << GlobalEvent(n, 1, Str_wl_shm, 1),
                   GlobalEvent(n, 2, Str_wl_compositor, 6),
                   GlobalEvent(n, 3, Str_xdg_wm_base, 7) >>
      [] m[1] = 2 /\ m[2] = 0 ->
            LET d == DecodeBind(m[3])
            IN  IF d.name = 1
                THEN << FormatEvent(d.new_id, <<0, 0, 0, 0>>),
                        FormatEvent(d.new_id, <<82, 71, 50, 52>>) >>
                ELSE <<>>
      [] m[1] = 1 /\ m[2] = 0 -> <<DoneEvent(WordAt(m[3], 0))>>
      [] OTHER -> <<>>

\* C26: events are written in the order of the requests that cause them:
\* what a read has written is the events of its first request, in the order
\* the handler writes them, then those of its second request, and so on,
\* with nothing in between, for every split of the stream into reads.
C26_EventsInRequestOrder ==
    \A cl \in DOMAIN clients :
        LET c == clients[cl]
        IN  c.sent = Flatten([i \in 1..Len(c.dispatched) |-> EventsOf(c.dispatched[i])])

\* C26 witness: one read brought get_registry, the bind of wl_shm and a
\* sync: three globals, two formats and a done were written.
C26_Witness ==
    \E cl \in DOMAIN clients :
        LET c == clients[cl]
        IN  /\ c.status = "running"
            /\ Len(c.dispatched) = 3
            /\ Len(c.sent) = 6
            /\ c.sent[4] = <<3, 0, 0, 0, 0, 0, 12, 0, 0, 0, 0, 0>>
            /\ c.sent[6] = <<6, 0, 0, 0, 0, 0, 12, 0, 0, 0, 0, 0>>

\* The record of the task `b` is the same before and after the step.
Untouched(b) ==
    /\ b \in DOMAIN clients
    /\ b \in DOMAIN clients'
    /\ clients'[b] = clients[b]

\* C27: the object ids of a client are its own. Whatever the interleaving of
\* two client tasks, a step of one of them (a request it dispatches included)
\* leaves the registry, the queues and everything else of the other as they
\* were, and a connection that has just been accepted has the registry
\* {1: Display}, no queued byte and no queued descriptor.
C27_ObjectIdsArePrivate ==
    [][\A a \in DOMAIN clients' :
          /\ ~Untouched(a) => \A b \in DOMAIN clients' \ {a} : Untouched(b)
          /\ a \notin DOMAIN clients =>
                /\ clients'[a].object_registry = (1 :> Display)
                /\ clients'[a].data = <<>>
                /\ clients'[a].pending_fds = <<>>]_vars

\* Both clients are connected and have bound the id 2, one as the registry
\* and the other as a callback.
C27_Witness ==
    /\ DOMAIN clients = TaskNames
    /\ \A cl \in TaskNames : clients[cl].status = "running"
    /\ 2 \in DOMAIN clients["c1"].object_registry
    /\ 2 \in DOMAIN clients["c2"].object_registry
    /\ clients["c1"].object_registry[2].kind = "Registry"
    /\ clients["c2"].object_registry[2].kind = "Callback"

\* C28: the guard of the global state is held only while one request is
\* dispatched. A task that holds it is running, has extracted the frame and
\* is in its handler; no two tasks hold it; a task at any other place, and a
\* task that has returned for whatever reason, does not hold it.
C28_GuardHeldOnlyDuringDispatch ==
    /\ \A cl \in DOMAIN clients :
          clients[cl].guard <=>
             /\ clients[cl].status = "running"
             /\ clients[cl].pc = "dispatch"
    /\ \A a, b \in DOMAIN clients :
          clients[a].guard /\ clients[b].guard => a = b

\* One task has failed in a handler and returned, and the other task holds
\* the guard for the request it is dispatching.
C28_Witness ==
    /\ DOMAIN clients = TaskNames
    /\ clients["c1"].status = "exited"
    /\ clients["c1"].exit = "error"
    /\ clients["c2"].guard
    /\ clients["c2"].pc = "dispatch"

\* The task `a` returns in the step.
Returns(a) ==
    /\ a \in DOMAIN clients
    /\ clients[a].status = "running"
    /\ clients'[a].status = "exited"

\* C29: the end of one client is the end of that client only. A step in
\* which a task returns, after a fatal error, at the end of the input or on
\* an I/O error, changes nothing of any other client, and whenever a task has
\* returned a connection that is not yet made can still be accepted.
C29_ExitEndsOnlyThatTask ==
    /\ [](\A a \in DOMAIN clients :
             clients[a].status = "exited" =>
                \A b \in TaskNames \ DOMAIN clients : ENABLED TaskAccept(b))
    /\ [][\A a \in DOMAIN clients :
             Returns(a) => \A b \in DOMAIN clients \ {a} : Untouched(b)]_vars

\* One task has returned after a fatal error; the other one was accepted, has
\* had a request dispatched and is still running with its objects.
C29_Witness ==
    /\ DOMAIN clients = TaskNames
    /\ clients["c1"].status = "exited"
    /\ clients["c1"].exit = "error"
    /\ clients["c2"].status = "running"
    /\ clients["c2"].n_dispatched = 1
    /\ 2 \in DOMAIN clients["c2"].object_registry

\* C30: a read that reports would-block is followed by a wait for
\* readability: after it the task is suspended in readable().await, and it
\* reads again only when that returns.
C30_WouldBlockSuspends ==
    [][\A cl \in DOMAIN clients :
          clients'[cl].polls > clients[cl].polls =>
             clients'[cl].pc = "readable"]_vars

\* The events a client has been sent in the read that was handled last.
SentEvents ==
    UNION {{clients[cl].sent[i] : i \in 1..Len(clients[cl].sent)} : cl \in DOMAIN clients}

\* The event carries a string: of the events of the server only
\* wl_registry.global is longer than a header and one word.
HasString(e) == Len(e) > 12

\* The string argument of a global event, which follows the header and the
\* name word, is laid out as the word L + 1, L bytes that are not NUL, one
\* NUL and zeros up to the next multiple of 4, and is followed by the version
\* word alone.
StringLaidOut(e) ==
    LET L == WordAt(e, 12) - 1
        padded == ((L + 1 + 3) \div 4) * 4
    IN  /\ L >= 0
        /\ Len(e) = 16 + padded + 4
        /\ \A i \in 1..L : e[16 + i] # 0
        /\ \A i \in (L + 1)..padded : e[16 + i] = 0

\* C31: every event frame that is written has a length field equal to 8 plus
\* the length of its argument area, a value that fits the 16 bits of the
\* field, and an argument area of a multiple of 4 bytes; the string of an
\* event is the word (length + 1), the bytes, a NUL and zeros up to a
\* multiple of 4.
C31_EventFramesWellFormed ==
    \A e \in SentEvents :
        /\ Len(e) >= 8
        /\ 8 + (Len(e) - 8) < 65536
        /\ U16FromLe(e[7], e[8]) = 8 + (Len(e) - 8)
        /\ (Len(e) - 8) % 4 = 0
        /\ HasString(e) => StringLaidOut(e)

\* The globals were announced: the events in hand include one whose string
\* needs one byte of padding, one that needs two and one that needs none,
\* next to events without a string.
C31_Witness ==
    /\ \E e \in SentEvents : HasString(e) /\ WordAt(e, 12) % 4 = 3
    /\ \E e \in SentEvents : HasString(e) /\ WordAt(e, 12) % 4 = 2
    /\ \E e \in SentEvents : HasString(e) /\ WordAt(e, 12) % 4 = 0
    /\ \E cl \in DOMAIN clients : clients[cl].n_dispatched >= 1

\* C32: a surface that create_surface has just bound has the buffer scale 1
\* in its pending and in its current slot, the transform 0, the offset
\* (0, 0), no buffer, no region, no damage and no frame callback.
C32_NewSurfaceHasScaleOne ==
    [][\A cl \in DOMAIN clients : \A id \in DOMAIN RegAfter(cl) :
          ~IsSurface(Reg(cl), id) /\ IsSurface(RegAfter(cl), id) =>
             LET s == RegAfter(cl)[id]
             IN  /\ s.pending_scale = 1
                 /\ s.current_scale = 1
                 /\ s.pending_transform = 0 /\ s.current_transform = 0
                 /\ s.pending_offset = <<0, 0>> /\ s.current_offset = <<0, 0>>
                 /\ s.pending_buffer = None /\ s.current_buffer = None
                 /\ s.pending_opaque_region = None /\ s.current_opaque_region = None
                 /\ s.pending_input_region = None /\ s.current_input_region = None
                 /\ s.pending_surface_damage = <<>> /\ s.current_surface_damage = <<>>
                 /\ s.pending_buffer_damage = <<>> /\ s.current_buffer_damage = <<>>
                 /\ s.frame_callbacks = <<>>]_vars

\* The surface setters as opcode and argument area: attach, damage,
\* set_opaque_region, set_input_region, set_buffer_transform,
\* set_buffer_scale, damage_buffer and offset.
SetterRequests ==
    {<<1, Words(<<b, 0, 0>>)>> : b \in AttachBuffers}
    \cup {<<2, Words(r)>> : r \in DamageRects}
    \cup {<<4, Le32(r)>> : r \in OpaqueRegions}
    \cup {<<5, Le32(r)>> : r \in InputRegions}
    \cup {<<7, Le32(1)>>}
    \cup {<<8, Le32(v)>> : v \in Scales}
    \cup {<<9, Words(r)>> : r \in DamageRects}
    \cup {<<10, Words(o)>> : o \in Offsets}

\* C33: the server writes events for four requests only. A request after
\* which events were written is wl_display.sync, wl_display.get_registry, a
\* wl_registry.bind of the wl_shm global, or a wl_surface.commit on a surface
\* with frame callbacks; every other request writes nothing, and on every
\* surface a client has, each of the surface setters is handled without a
\* write.
C33_OnlyFourRequestsEmit ==
    /\ [](\A cl \in DOMAIN clients : \A id \in DOMAIN Reg(cl) :
             clients[cl].status = "running" /\ IsSurface(Reg(cl), id) =>
                \A q \in SetterRequests :
                   LET r == handle_message(clients[cl], id, q[1], q[2],
                                           globals, DefaultEnv)
                   IN  r.res = "ok" /\ r.c.sent = clients[cl].sent)
    /\ [][\A cl \in DOMAIN clients :
          OneMessage(cl) /\ clients'[cl].sent # <<>> =>
             \/ RequestOn(cl, "Display", 0)
             \/ RequestOn(cl, "Display", 1)
             \/ /\ RequestOn(cl, "Registry", 0)
                /\ DecodeBind(DispatchedNow(cl)[1][3]).ok
                /\ LET i == FindGlobal(globals, DecodeBind(DispatchedNow(cl)[1][3]).name)
                   IN  i # 0 /\ globals[i].interface = "Shm"
             \/ /\ RequestOn(cl, "WlSurface", 6)
                /\ Reg(cl)[DispatchedNow(cl)[1][1]].frame_callbacks # <<>>]_vars

\* The client has a surface, and the request handled last, a create_region
\* on its compositor, bound the region and wrote nothing.
C33_Witness ==
    \E cl \in DOMAIN clients : \E t \in SurfaceIds : \E g \in RegionIds :
        LET c == clients[cl]
        IN  /\ c.status = "running"
            /\ IsSurface(c.object_registry, t)
            /\ Len(c.dispatched) = 1
            /\ c.dispatched[1][1] \in DOMAIN c.object_registry
            /\ c.object_registry[c.dispatched[1][1]].kind = "WlCompositor"
            /\ c.dispatched[1][2] = 1
            /\ g \in DOMAIN c.object_registry
            /\ c.object_registry[g].kind = "WlRegion"
            /\ c.sent = <<>>

\* The four words of a rectangle, the two of an offset.
Rect(a) == <<WordAt(a, 0), WordAt(a, 4), WordAt(a, 8), WordAt(a, 12)>>

\* The surface `s` after a setter of opcode `op` with the argument area `a`,
\* as the protocol states it.
AfterSetter(s, op, a) ==
    CASE op = 1 -> [s EXCEPT !.pending_buffer = Some(WordAt(a, 0))]
      [] op = 2 -> [s EXCEPT !.pending_surface_damage = Append(@, Rect(a))]
      [] op = 4 -> [s EXCEPT !.pending_opaque_region = Some(WordAt(a, 0))]
      [] op = 5 -> [s EXCEPT !.pending_input_region = Some(WordAt(a, 0))]
      [] op = 8 -> [s EXCEPT !.pending_scale = WordAt(a, 0)]
      [] op = 9 -> [s EXCEPT !.pending_buffer_damage = Append(@, Rect(a))]
      [] op = 10 -> [s EXCEPT !.pending_offset = <<WordAt(a, 0), WordAt(a, 4)>>]

\* C34: a surface setter changes its own pending slot of its surface and
\* nothing else. attach sets pending_buffer to the id it is given whatever x
\* and y are, damage and damage_buffer put one rectangle after those of their
\* list, set_opaque_region, set_input_region, set_buffer_scale and offset
\* overwrite their slot; the other slots of the surface, the other objects,
\* the bindings and the mappings are as before, and nothing is written.
C34_SetterChangesItsSlotOnly ==
    [][\A cl \in DOMAIN clients : \A op \in {1, 2, 4, 5, 8, 9, 10} :
          RequestOn(cl, "WlSurface", op) =>
             LET m == DispatchedNow(cl)[1]
             IN  /\ StillRunning(cl)
                 /\ RegAfter(cl) =
                       [Reg(cl) EXCEPT ![m[1]] = AfterSetter(@, op, m[3])]
                 /\ clients'[cl].mmaps = clients[cl].mmaps
                 /\ clients'[cl].pending_fds = clients[cl].pending_fds
                 /\ clients'[cl].sent = <<>>]_vars

\* A surface that was damaged twice, with two different rectangles, and then
\* given a buffer: both rectangles are pending in the order of the requests.
C34_Witness ==
    \E cl \in DOMAIN clients : \E t \in SurfaceIds : \E b \in AttachBuffers :
        LET c == clients[cl]
        IN  /\ c.status = "running"
            /\ IsSurface(c.object_registry, t)
            /\ c.object_registry[t].pending_surface_damage
                  = <<<<5, 5, 1, 1>>, <<0, 0, 10, 10>>>>
            /\ c.object_registry[t].pending_buffer = Some(b)
            /\ c.dispatched = << <<t, 1, Words(<<b, 0, 0>>)>> >>

\* C35: the decoder of wl_registry.bind undoes the encoder. From an argument
\* area laid out as name, interface string, version and new_id it recovers
\* that name, that string, that version and that new_id, for a string of any
\* length from 0 on and for any 32-bit words; and the padded length the
\* decoder computes from the length word is the number of bytes the string
\* encoder wrote after that word.
C35_BindDecodeUndoesEncode ==
    /\ wire.stage \in {"encoded", "decoded"} =>
          /\ padded_len(WordAt(wire.bytes, 4))
                = Len(get_string_bytes(wire.interface)) - 4
          /\ Len(wire.bytes) = 16 + padded_len(WordAt(wire.bytes, 4))
    /\ wire.stage = "decoded" =>
          /\ wire.decoded.ok
          /\ wire.decoded.name = wire.name
          /\ wire.decoded.interface = wire.interface
          /\ wire.decoded.version = wire.version
          /\ wire.decoded.new_id = wire.new_id

\* The empty string and the words at the ends of the range were encoded and
\* decoded.
C35_Witness ==
    /\ wire.stage = "decoded"
    /\ wire.interface = <<>>
    /\ wire.name = -1
    /\ wire.decoded.ok

\* C36: a client whose write cannot complete keeps no other client waiting.
\* When the executor is fair, a task that has a whole frame in hand and asks
\* for the guard of the global state gets to dispatch that frame, whatever
\* another task is blocked in.
C36_BlockedWriterDelaysNoOne ==
    \A cl \in TaskNames : At(cl, "lock") ~> At(cl, "dispatch")

\* The task holds the mutex of one of its mappings.
HoldsMmap(cl) == \E g \in wire.mmap_guards : g[1] = cl

\* The task is in mmap.lock().await of a resize.
AsksForMmap(cl) == At(cl, "dispatch") /\ IsResize(clients[cl])

\* C37: the locks cannot deadlock. A task takes the guard of the global state
\* first and the mutex of a mapping only in wl_shm_pool.resize, with the guard
\* in hand; a task that waits for the guard holds no mapping mutex; a task
\* outside a handler, or one that has returned, holds neither; the mutex a
\* resize asks for is free, so the holder of the guard never waits for a lock
\* and no tasks wait for each other.
C37_NoLockDeadlock ==
    /\ \A g \in wire.mmap_guards : g[1] \in DOMAIN clients
    /\ \A cl \in DOMAIN clients :
          /\ HoldsMmap(cl) => clients[cl].guard /\ At(cl, "remap")
          /\ At(cl, "lock") => ~HoldsMmap(cl) /\ ~clients[cl].guard
          /\ clients[cl].guard => At(cl, "dispatch") \/ At(cl, "remap")
          /\ AsksForMmap(cl) =>
                /\ clients[cl].guard
                /\ <<cl, clients[cl].object_registry[clients[cl].frame[1]].mmap>>
                      \notin wire.mmap_guards
          /\ At(cl, "lock") =>
                \A h \in DOMAIN clients :
                   clients[h].guard => ~At(h, "lock") /\ (AsksForMmap(h) => ENABLED LockMmap(h))

\* One task is in the remap of a resize, with the guard of the global state
\* and the mutex of its mapping, and the other waits for the guard.
C37_Witness ==
    /\ DOMAIN clients = TaskNames
    /\ At("c1", "remap")
    /\ clients["c1"].guard
    /\ HoldsMmap("c1")
    /\ At("c2", "lock")

\* The slot is empty or names an id that the registry binds to a Buffer.
NamesBuffer(reg, slot) ==
    slot # None => slot[1] \in DOMAIN reg /\ reg[slot[1]].kind = "Buffer"

\* C38: the buffer of a surface is a buffer of the client. In every state the
\* pending_buffer and the current_buffer of every surface, when set, name an
\* id that the registry of the same client binds to a Buffer.
C38_SurfaceBuffersAreBound ==
    \A cl \in DOMAIN clients : \A id \in DOMAIN Reg(cl) :
        IsSurface(Reg(cl), id) =>
           /\ NamesBuffer(Reg(cl), Reg(cl)[id].pending_buffer)
           /\ NamesBuffer(Reg(cl), Reg(cl)[id].current_buffer)

\* C39: the descriptors a client passed are closed when it is gone. Once the
\* task of a client has returned, at the end of the input or after a fatal
\* error of a handler, no descriptor received on its connection is open,
\* whether a pool was made of it or it was still queued.
C39_DescriptorsClosedAtExit ==
    \A cl \in DOMAIN clients :
        clients[cl].status = "exited" => \A g \in wire.open : g[1] # cl

====
